---- MODULE Spec2Model ----
(***************************************************************************)
(* Command-translation and application layer of the BPMN editor:           *)
(*   - validateCommand / validateCommands / validateMessage (validation)   *)
(*   - BpmnTransformService (executeCommands and the nine command kinds)   *)
(*   - useAiService.sendMessage (assistant client)                         *)
(*   - ChatPanel.handleSendMessage (one exchange of the conversation)      *)
(* A step of the model is one run of the JavaScript main thread between    *)
(* two suspension points on external promises (fetch, response.json,       *)
(* modeler.importXML); awaits on already-settled promises do not let       *)
(* another task in and stay inside the step.                               *)
(***************************************************************************)
EXTENDS Integers, Sequences, FiniteSets, TLC

\* ------------------------------------------------------------------ bounds
MaxBatch == 3
MaxExchanges == 2
MaxMessages == 2
MaxNow == 2
MaxHandlers == 2
MaxSaves == 2

\* ------------------------------------------------------------- JS values
\* A JavaScript value as far as the validator and the executor look at it:
\* t is its kind, s a string payload, n a number payload, kv the own
\* properties of an object as a set of <<key, value>> pairs.
JUndef == [t |-> "undefined", s |-> "", n |-> 0, kv |-> {}]
JNull == [t |-> "null", s |-> "", n |-> 0, kv |-> {}]
JStr(str) == [t |-> "string", s |-> str, n |-> 0, kv |-> {}]
JNum(num) == [t |-> "number", s |-> "", n |-> num, kv |-> {}]
JObj(pairs) == [t |-> "object", s |-> "", n |-> 0, kv |-> pairs]

\* typeof v
Typeof(v) == IF v.t = "null" THEN "object" ELSE v.t

\* !!v
Truthy(v) ==
  CASE v.t = "undefined" -> FALSE
    [] v.t = "null" -> FALSE
    [] v.t = "string" -> v.s # ""
    [] v.t = "number" -> v.n # 0
    [] OTHER -> TRUE

\* A command candidate: js is the kind of the candidate itself ("object"
\* for a record with fields, "null" or "string" for a non-object).
Cmd(action, id, name, x, y, sourceId, targetId, properties) ==
  [js |-> "object", action |-> action, id |-> id, name |-> name, x |-> x,
   y |-> y, sourceId |-> sourceId, targetId |-> targetId,
   properties |-> properties]

NonObjectCandidate(kind) ==
  [js |-> kind, action |-> JUndef, id |-> JUndef, name |-> JUndef,
   x |-> JUndef, y |-> JUndef, sourceId |-> JUndef, targetId |-> JUndef,
   properties |-> JUndef]

Clear == Cmd(JStr("clear"), JUndef, JUndef, JUndef, JUndef, JUndef, JUndef, JUndef)
AddShape(action, id) ==
  Cmd(JStr(action), id, JUndef, JUndef, JUndef, JUndef, JUndef, JUndef)
AddShapeAt(action, id, name, x, y) ==
  Cmd(JStr(action), id, name, x, y, JUndef, JUndef, JUndef)
AddFlow(src, tgt) ==
  Cmd(JStr("addSequenceFlow"), JUndef, JUndef, JUndef, JUndef, src, tgt, JUndef)
Update(id, props) ==
  Cmd(JStr("updateElement"), id, JUndef, JUndef, JUndef, JUndef, JUndef, props)
Remove(id) ==
  Cmd(JStr("removeElement"), id, JUndef, JUndef, JUndef, JUndef, JUndef, JUndef)

\* ------------------------------------------------------------ constants
MAX_MESSAGE_LENGTH == 10000

SHAPE_ACTIONS ==
  {"addTask", "addStartEvent", "addEndEvent", "addExclusiveGateway",
   "addParallelGateway"}

Includes(seq, v) == \E i \in 1..Len(seq) : seq[i] = v

\* ------------------------------------------------------------ validator
\* !cmd.f || typeof cmd.f !== 'string'
NotNonEmptyString(v) == ~Truthy(v) \/ Typeof(v) # "string"

\* The error list of validateCommand, in the order the code pushes them.
\* An error is its fixed text (msg) and its interpolated part (arg).
\* The action check without the lookup in VALID_ACTIONS.
ActionErrorsAnyString(cmd) ==
  IF NotNonEmptyString(cmd.action) THEN <<[msg |-> "Command missing action", arg |-> ""]>>
  ELSE <<>>

ActionErrors(cmd) ==
  LET VALID_ACTIONS ==
        <<"clear", "addTask", "addStartEvent", "addEndEvent", "addExclusiveGateway",
          "addParallelGateway", "addSequenceFlow", "updateElement", "removeElement">>
  IN  IF NotNonEmptyString(cmd.action) THEN <<[msg |-> "Command missing action", arg |-> ""]>>
      ELSE IF ~Includes(VALID_ACTIONS, cmd.action.s)
           THEN <<[msg |-> "Invalid action", arg |-> cmd.action.s]>>
           ELSE <<>>

IsAction(cmd, a) == cmd.action.t = "string" /\ cmd.action.s = a

\* The flow check that looks at sourceId only.
FlowErrorsSourceOnly(cmd) ==
  IF IsAction(cmd, "addSequenceFlow") /\ NotNonEmptyString(cmd.sourceId)
  THEN <<[msg |-> "addSequenceFlow requires sourceId", arg |-> "sourceId"]>>
  ELSE <<>>

FlowErrors(cmd) ==
  IF IsAction(cmd, "addSequenceFlow")
  THEN (IF NotNonEmptyString(cmd.sourceId)
        THEN <<[msg |-> "addSequenceFlow requires sourceId", arg |-> "sourceId"]>> ELSE <<>>)
       \o (IF NotNonEmptyString(cmd.targetId)
           THEN <<[msg |-> "addSequenceFlow requires targetId", arg |-> "targetId"]>> ELSE <<>>)
  ELSE <<>>

validateCommand(command) ==
  LET PropertiesErrors(cmd) ==
        IF IsAction(cmd, "updateElement")
           /\ (~Truthy(cmd.properties) \/ Typeof(cmd.properties) # "object")
        THEN <<[msg |-> "updateElement requires properties object", arg |-> "properties"]>>
        ELSE <<>>
      IdErrors(cmd) ==
        IF (IsAction(cmd, "updateElement") \/ IsAction(cmd, "removeElement"))
           /\ NotNonEmptyString(cmd.id)
        THEN <<[msg |-> "requires id", arg |-> cmd.action.s]>>
        ELSE <<>>
      ShapeErrors(cmd) ==
        IF cmd.action.t = "string" /\ cmd.action.s \in SHAPE_ACTIONS
        THEN (IF NotNonEmptyString(cmd.id)
              THEN <<[msg |-> "requires id", arg |-> cmd.action.s]>> ELSE <<>>)
             \o (IF cmd.x.t # "undefined" /\ Typeof(cmd.x) # "number"
                 THEN <<[msg |-> "x coordinate must be a number", arg |-> "x"]>> ELSE <<>>)
             \o (IF cmd.y.t # "undefined" /\ Typeof(cmd.y) # "number"
                 THEN <<[msg |-> "y coordinate must be a number", arg |-> "y"]>> ELSE <<>>)
        ELSE <<>>
  IN  IF command.js # "object"
      THEN [valid |-> FALSE, errors |-> <<[msg |-> "Invalid command format", arg |-> ""]>>]
      ELSE LET errors == ActionErrors(command) \o FlowErrors(command)
                         \o ShapeErrors(command) \o IdErrors(command)
                         \o PropertiesErrors(command)
           IN [valid |-> Len(errors) = 0, errors |-> errors]

\* The commands argument of validateCommands: isArray tells whether
\* Array.isArray holds of it, list is then its elements.
\* The forEach callback that prefixes an error with forEach's own index.
RECURSIVE CollectErrorsZeroBased(_, _)
CollectErrorsZeroBased(list, index) ==
  IF index > Len(list) THEN <<>>
  ELSE LET result == validateCommand(list[index])
       IN (IF ~result.valid
           THEN <<[index |-> index - 1, errors |-> result.errors]>>
           ELSE <<>>) \o CollectErrorsZeroBased(list, index + 1)

RECURSIVE CollectErrors(_, _)
CollectErrors(list, index) ==
  IF index > Len(list) THEN <<>>
  ELSE LET result == validateCommand(list[index])
       IN (IF ~result.valid
           THEN <<[index |-> index, errors |-> result.errors]>>
           ELSE <<>>) \o CollectErrors(list, index + 1)

\* validateCommands without its Array.isArray check: forEach of a value
\* that has none throws.
validateCommandsUnguarded(commands) ==
  IF ~commands.isArray
  THEN [exception |-> "TypeError"]
  ELSE LET errors == CollectErrors(commands.list, 1)
       IN [valid |-> Len(errors) = 0, errors |-> errors]

validateCommands(commands) ==
  IF ~commands.isArray
  THEN [valid |-> FALSE, errors |-> <<[index |-> 0, errors |-> <<[msg |-> "Commands must be an array", arg |-> ""]>>]>>]
  ELSE LET errors == CollectErrors(commands.list, 1)
       IN [valid |-> Len(errors) = 0, errors |-> errors]

\* ------------------------------------------------------- diagram engine
\* The diagram is the element registry in its iteration order.  A node has
\* a position, a flow has NoPos and the ids of its endpoints; bo is the
\* business object's properties as <<key, value>> pairs.
NoPos == -1

Node(id, type, name, x, y) ==
  [id |-> id, type |-> type, x |-> x, y |-> y, source |-> "", target |-> "",
   bo |-> {<<"name", name>>}]

Flow(id, src, tgt) ==
  [id |-> id, type |-> "bpmn:SequenceFlow", x |-> NoPos, y |-> NoPos,
   source |-> src, target |-> tgt, bo |-> {}]

Root(id, type) ==
  [id |-> id, type |-> type, x |-> NoPos, y |-> NoPos, source |-> "",
   target |-> "", bo |-> {}]

\* The canonical blank diagram: the root container and one start element.
BLANK_DIAGRAM ==
  <<Root("Process_1", "bpmn:Process"),
    Node("StartEvent_1", "bpmn:StartEvent", "", 180, 160)>>

Ids(els) == {els[i].id : i \in 1..Len(els)}

\* elementRegistry.get(id): the position of the element, 0 for undefined.
RegistryGet(els, idv) ==
  IF idv.t = "string" /\ idv.s \in Ids(els)
  THEN CHOOSE i \in 1..Len(els) : els[i].id = idv.s
  ELSE 0

\* An id the engine generates for an element created without one.
GeneratedId(els, prefix) ==
  LET k == CHOOSE n \in 1..(Len(els) + 1) :
             /\ (prefix \o ToString(n)) \notin Ids(els)
             /\ \A m \in 1..(n - 1) : (prefix \o ToString(m)) \in Ids(els)
  IN prefix \o ToString(k)

NoError == [kind |-> "none", arg |-> ""]

Ok(els, result) == [ok |-> TRUE, elements |-> els, result |-> result, error |-> NoError]
Throw(els, kind, arg) ==
  LET NoResult == [tag |-> "none", id |-> "", type |-> "", keys |-> {}]
  IN  [ok |-> FALSE, elements |-> els, result |-> NoResult,
       error |-> [kind |-> kind, arg |-> arg]]

\* ------------------------------------------------------ command executor

addShape(els, type, command, defaultName) ==
  LET \* elementRegistry.find(el => el.type === 'bpmn:Process')
      getProcess(registry) ==
        IF \E i \in 1..Len(registry) : registry[i].type = "bpmn:Process"
        THEN CHOOSE i \in 1..Len(registry) :
               /\ registry[i].type = "bpmn:Process"
               /\ \A j \in 1..(i - 1) : registry[j].type # "bpmn:Process"
        ELSE 0
      \* x = CANVAS.DEFAULT_X: the default applies to an undefined argument only.
      Coordinate(v, default) == IF v.t = "undefined" THEN default ELSE v.n
      DEFAULT_Y == 200
      DEFAULT_X == 200
      process == getProcess(els)
      id == IF Truthy(command.id) /\ command.id.t = "string"
            THEN command.id.s
            ELSE GeneratedId(els, "Gen_")
      name == IF Truthy(command.name) THEN command.name.s ELSE defaultName
      x == Coordinate(command.x, DEFAULT_X)
      y == Coordinate(command.y, DEFAULT_Y)
  IN IF process = 0 THEN Throw(els, "Engine", "no parent")
     ELSE IF id \in Ids(els) THEN Throw(els, "Engine", id)
     ELSE Ok(Append(els, Node(id, type, name, x, y)),
             [tag |-> "shape", id |-> id, type |-> type, keys |-> {}])

addSequenceFlow(els, command) ==
  LET source == RegistryGet(els, command.sourceId)
      target == RegistryGet(els, command.targetId)
  IN IF source = 0 THEN Throw(els, "Source element not found", command.sourceId.s)
     ELSE IF target = 0 THEN Throw(els, "Target element not found", command.targetId.s)
     ELSE LET id == GeneratedId(els, "Flow_")
          IN Ok(Append(els, Flow(id, els[source].id, els[target].id)),
                [tag |-> "flow", id |-> id, type |-> "bpmn:SequenceFlow", keys |-> {}])

\* modeling.updateProperties: the given pairs replace those with the same
\* key and the others stay.
MergeProperties(bo, kv) ==
  {p \in bo : ~\E q \in kv : q[1] = p[1]} \cup kv

\* The id the properties give the element: its own when they have none.
NewId(el, kv) ==
  IF \E p \in kv : p[1] = "id" THEN (CHOOSE p \in kv : p[1] = "id")[2] ELSE el.id

\* The element at position i gets the id newId, and the flows that start
\* or end at it follow.
WithId(els, i, newId) ==
  [j \in 1..Len(els) |->
     IF j = i THEN [els[j] EXCEPT !.id = newId]
     ELSE [els[j] EXCEPT
             !.source = IF @ = els[i].id THEN newId ELSE @,
             !.target = IF @ = els[i].id THEN newId ELSE @]]

\* modeling.updateProperties(element, properties): an id among the
\* properties renames the element in the registry, which refuses an id it
\* already holds; the other properties go to the business object.
updateProperties(els, element, kv) ==
  LET newId == NewId(els[element], kv)
      others == {p \in kv : p[1] # "id"}
  IN IF newId # els[element].id /\ newId \in Ids(els)
     THEN Throw(els, "Engine", newId)
     ELSE Ok([WithId(els, element, newId) EXCEPT
                ![element].bo = MergeProperties(@, others)],
             [tag |-> "updated", id |-> els[element].id, type |-> "",
              keys |-> {p[1] : p \in kv}])

\* updateElement on a registry that renames without looking for the id.
updateElementUnchecked(els, command) ==
  LET element == RegistryGet(els, command.id)
      kv == command.properties.kv
  IN IF element = 0 THEN Throw(els, "Element not found", command.id.s)
     ELSE IF command.properties.t # "object"
          THEN Throw(els, "TypeError", "properties")
          ELSE Ok([WithId(els, element, NewId(els[element], kv)) EXCEPT
                     ![element].bo = MergeProperties(@, {p \in kv : p[1] # "id"})],
                  [tag |-> "updated", id |-> command.id.s, type |-> "",
                   keys |-> {p[1] : p \in kv}])

updateElement(els, command) ==
  LET element == RegistryGet(els, command.id)
  IN IF element = 0 THEN Throw(els, "Element not found", command.id.s)
     ELSE IF command.properties.t # "object"
          THEN Throw(els, "TypeError", "properties")
          ELSE updateProperties(els, element, command.properties.kv)

\* A removal that leaves the element's flows in the registry.
RECURSIVE WithoutElementOnly(_, _)
WithoutElementOnly(els, id) ==
  IF Len(els) = 0 THEN <<>>
  ELSE (IF Head(els).id = id THEN <<>> ELSE <<Head(els)>>)
       \o WithoutElementOnly(Tail(els), id)

\* modeling.removeElements([element]) takes the element's flows with it.
RECURSIVE Without(_, _)
Without(els, id) ==
  IF Len(els) = 0 THEN <<>>
  ELSE LET el == Head(els)
       IN (IF el.id = id \/ el.source = id \/ el.target = id
           THEN <<>> ELSE <<el>>) \o Without(Tail(els), id)

\* removeElement without its lookup check: removing an element the registry
\* does not hold is reported as done.
removeElementUnchecked(els, command) ==
  Ok(Without(els, command.id.s),
     [tag |-> "removed", id |-> command.id.s, type |-> "", keys |-> {}])

removeElement(els, command) ==
  LET element == RegistryGet(els, command.id)
  IN IF element = 0 THEN Throw(els, "Element not found", command.id.s)
     ELSE Ok(Without(els, els[element].id),
             [tag |-> "removed", id |-> command.id.s, type |-> "", keys |-> {}])

\* clearDiagram whose import leaves the diagram as it was.
clearDiagramKeeps(els) ==
  Ok(els, [tag |-> "cleared", id |-> "", type |-> "", keys |-> {}])

\* clearDiagram once modeler.importXML(BLANK_DIAGRAM) has resolved.
clearDiagram(els) ==
  Ok(BLANK_DIAGRAM, [tag |-> "cleared", id |-> "", type |-> "", keys |-> {}])

\* The commands whose handler awaits the engine.
AwaitsImport(command) == command.js = "object" /\ IsAction(command, "clear")

\* executeCommand for the synchronous handlers: the switch on
\* command.action; reading .action of null throws.
executeCommand(els, command) ==
  IF command.js = "null" THEN Throw(els, "TypeError", "action")
  ELSE IF command.action.t # "string"
       THEN Throw(els, "Unknown command action", "")
  ELSE CASE command.action.s = "clear" -> clearDiagram(els)
         [] command.action.s = "addTask" -> addShape(els, "bpmn:Task", command, "Task")
         [] command.action.s = "addStartEvent" -> addShape(els, "bpmn:StartEvent", command, "")
         [] command.action.s = "addEndEvent" -> addShape(els, "bpmn:EndEvent", command, "")
         [] command.action.s = "addExclusiveGateway" -> addShape(els, "bpmn:ExclusiveGateway", command, "")
         [] command.action.s = "addParallelGateway" -> addShape(els, "bpmn:ParallelGateway", command, "")
         [] command.action.s = "addSequenceFlow" -> addSequenceFlow(els, command)
         [] command.action.s = "updateElement" -> updateElement(els, command)
         [] command.action.s = "removeElement" -> removeElement(els, command)
         [] OTHER -> Throw(els, "Unknown command action", command.action.s)

\* One CommandResult of executeCommands.
CommandResult(command, outcome) ==
  [success |-> outcome.ok, command |-> command, result |-> outcome.result,
   error |-> outcome.error]

\* executeCommands without its try/catch around the command: the first
\* failure ends the loop.
RECURSIVE RunBatchAbort(_, _, _, _)
RunBatchAbort(els, commands, idx, results) ==
  IF idx > Len(commands)
  THEN [pc |-> "done", elements |-> els, idx |-> idx, results |-> results]
  ELSE IF AwaitsImport(commands[idx])
       THEN [pc |-> "import", elements |-> els, idx |-> idx, results |-> results]
       ELSE LET outcome == executeCommand(els, commands[idx])
                entry == CommandResult(commands[idx], outcome)
            IN IF outcome.ok
               THEN RunBatchAbort(outcome.elements, commands, idx + 1, Append(results, entry))
               ELSE [pc |-> "done", elements |-> els, idx |-> idx,
                     results |-> Append(results, entry)]

\* executeCommands that, once a command has failed, records the later
\* commands as failed without running them.
RECURSIVE RunBatchSkip(_, _, _, _)
RunBatchSkip(els, commands, idx, results) ==
  IF idx > Len(commands)
  THEN [pc |-> "done", elements |-> els, idx |-> idx, results |-> results]
  ELSE IF \E i \in 1..Len(results) : ~results[i].success
       THEN RunBatchSkip(els, commands, idx + 1,
              Append(results, CommandResult(commands[idx], Throw(els, "Skipped", ""))))
  ELSE IF AwaitsImport(commands[idx])
       THEN [pc |-> "import", elements |-> els, idx |-> idx, results |-> results]
       ELSE LET outcome == executeCommand(els, commands[idx])
            IN RunBatchSkip(outcome.elements, commands, idx + 1,
                            Append(results, CommandResult(commands[idx], outcome)))

\* executeCommands as a transaction: a failure puts the diagram back to
\* what it was when the loop was entered.
RECURSIVE RunBatchRollback(_, _, _, _)
RunBatchRollback(els, commands, idx, results) ==
  IF idx > Len(commands)
  THEN [pc |-> "done", elements |-> els, idx |-> idx, results |-> results]
  ELSE IF AwaitsImport(commands[idx])
       THEN [pc |-> "import", elements |-> els, idx |-> idx, results |-> results]
       ELSE LET outcome == executeCommand(els, commands[idx])
                rest == RunBatchRollback(outcome.elements, commands, idx + 1,
                          Append(results, CommandResult(commands[idx], outcome)))
            IN IF outcome.ok /\ \E i \in (idx + 1)..Len(rest.results) : ~rest.results[i].success
               THEN [rest EXCEPT !.elements = els]
               ELSE rest

\* The loop of executeCommands from position idx on, up to the next
\* command that suspends on the engine (pc "import") or to the end of the
\* list (pc "done").
RECURSIVE RunBatch(_, _, _, _)
RunBatch(els, commands, idx, results) ==
  IF idx > Len(commands)
  THEN [pc |-> "done", elements |-> els, idx |-> idx, results |-> results]
  ELSE IF AwaitsImport(commands[idx])
       THEN [pc |-> "import", elements |-> els, idx |-> idx, results |-> results]
       ELSE LET outcome == executeCommand(els, commands[idx])
            IN RunBatch(outcome.elements, commands, idx + 1,
                        Append(results, CommandResult(commands[idx], outcome)))

\* --------------------------------------------------- message validation
\* A text is its runs of equal characters, ws telling a whitespace run from
\* a run of other characters and n its length; js is typeof of the value.
Run(ws, n) == [ws |-> ws, n |-> n]
Text(runs) == [js |-> "string", runs |-> runs]

RECURSIVE TextLength(_)
TextLength(runs) ==
  IF Len(runs) = 0 THEN 0 ELSE Head(runs).n + TextLength(Tail(runs))

RECURSIVE TrimStart(_)
TrimStart(runs) ==
  IF Len(runs) > 0 /\ Head(runs).ws THEN TrimStart(Tail(runs)) ELSE runs

RECURSIVE TrimEnd(_)
TrimEnd(runs) ==
  IF Len(runs) > 0 /\ runs[Len(runs)].ws
  THEN TrimEnd(SubSeq(runs, 1, Len(runs) - 1))
  ELSE runs

\* String.prototype.trim
Trim(runs) == TrimEnd(TrimStart(runs))

\* validateMessage measuring the text as typed instead of the trimmed one.
validateMessageUntrimmed(message) ==
  IF message.js # "string" \/ TextLength(message.runs) = 0
  THEN [valid |-> FALSE, errors |-> <<"Message is required">>]
  ELSE LET errors ==
             (IF TextLength(Trim(message.runs)) = 0
              THEN <<"Message cannot be empty">> ELSE <<>>)
             \o (IF TextLength(message.runs) > MAX_MESSAGE_LENGTH
                 THEN <<"Message exceeds maximum length of 10,000 characters">>
                 ELSE <<>>)
       IN [valid |-> Len(errors) = 0, errors |-> errors]

validateMessage(message) ==
  IF message.js # "string" \/ TextLength(message.runs) = 0
  THEN [valid |-> FALSE, errors |-> <<"Message is required">>]
  ELSE LET trimmed == Trim(message.runs)
           errors ==
             (IF TextLength(trimmed) = 0 THEN <<"Message cannot be empty">> ELSE <<>>)
             \o (IF TextLength(trimmed) > MAX_MESSAGE_LENGTH
                 THEN <<"Message exceeds maximum length of 10,000 characters">>
                 ELSE <<>>)
       IN [valid |-> Len(errors) = 0, errors |-> errors]

\* ------------------------------------------------------- reply handling
\* The completion text: raw is the text, json what JSON.parse makes of it
\* (t "SyntaxError" when it throws), with the message and commands members
\* of a parsed object.  A commands member is its kind and, for an array,
\* its elements.
NoCommands == [js |-> "undefined", list |-> <<>>]
CommandArray(list) == [js |-> "array", list |-> list]
Json(t, message, commands) == [t |-> t, message |-> message, commands |-> commands]
Content(raw, json) == [raw |-> raw, json |-> json]

\* parsed.message / parsed.commands: undefined on a value without them.
Member(json, name) ==
  IF json.t = "object"
  THEN (IF name = "message" THEN json.message ELSE json.commands)
  ELSE (IF name = "message" THEN JUndef ELSE NoCommands)

\* parsed.commands || []
CommandsOrEmpty(c) ==
  IF c.js \in {"undefined", "null"}
  THEN [isArray |-> TRUE, list |-> <<>>]
  ELSE [isArray |-> c.js = "array", list |-> c.list]

\* parsed.message || 'Done!'
MessageOrDone(m) == IF Truthy(m) THEN m ELSE JStr("Done!")

AiResponse(message, commands) ==
  [kind |-> "ok", message |-> message, commands |-> commands, error |-> NoError]

\* sendMessage returning the parsed list without looking at the result of
\* validateCommands.
ParseReplyUnvalidated(content) ==
  IF content.json.t \in {"SyntaxError", "null"}
  THEN AiResponse(JStr(content.raw), <<>>)
  ELSE AiResponse(MessageOrDone(Member(content.json, "message")),
                  CommandsOrEmpty(Member(content.json, "commands")).list)

\* The inner try/catch of sendMessage: JSON.parse, validateCommands, and
\* the fallback to the raw text when anything in it throws.
ParseReply(content) ==
  IF content.json.t \in {"SyntaxError", "null"}
  THEN AiResponse(JStr(content.raw), <<>>)
  ELSE LET commands == CommandsOrEmpty(Member(content.json, "commands"))
           message == MessageOrDone(Member(content.json, "message"))
       IN IF ~validateCommands(commands).valid
          THEN AiResponse(message, <<>>)
          ELSE AiResponse(message, commands.list)

Failure(kind, arg) ==
  [kind |-> "error", message |-> JUndef, commands |-> <<>>,
   error |-> [kind |-> kind, arg |-> arg]]

\* ---------------------------------------------------------------- state
VARIABLES
  elements,        \* the live diagram (element registry of the modeler)
  frames,          \* activations of the async functions, in start order
  chatMessages,    \* store.chatMessages
  isProcessing,    \* useAiService: in-flight flag
  error,           \* useAiService: last error
  isAiProcessing,  \* store.isAiProcessing
  apiKey,          \* useAiService: whether a credential is configured
  hasModeler,      \* ChatPanel: whether modeler?.value is there
  fetchCalls,      \* number of calls of fetch (the network layer)
  now,             \* the value Date.now() returned last
  editor,          \* the other refs of the store (isDirty, zoom, ...)
  dialog,          \* useNotifications: the confirmation dialog
  settings         \* useAiService: key, endpoint and model, in memory and stored

vars ==
  <<elements, frames, chatMessages, isProcessing, error, isAiProcessing,
    apiKey, hasModeler, fetchCalls, now, editor, dialog, settings>>

\* --------------------------------------------------------------- inputs
\* A diagram with two connected nodes, as the sample loaded on mount.
SampleDiagram ==
  <<Root("Process_1", "bpmn:Process"),
    Node("s1", "bpmn:StartEvent", "Start", 100, 200),
    Node("t1", "bpmn:Task", "Task", 200, 200),
    Flow("Flow_1", "s1", "t1")>>

Renamed == JObj({<<"name", "Review">>})
Reidentified == JObj({<<"id", "s1">>})

ValidCommands ==
  {Clear,
   AddShape("addStartEvent", JStr("s1")),
   AddShape("addTask", JStr("t1")),
   AddShapeAt("addEndEvent", JStr("e1"), JStr("End"), JNum(450), JNum(200)),
   AddShape("addEndEvent", JStr("e2")),
   AddFlow(JStr("s1"), JStr("t1")),
   AddFlow(JStr("t1"), JStr("zz")),
   Update(JStr("t1"), Renamed),
   Update(JStr("t1"), Reidentified),
   Remove(JStr("t1"))}

CommandUniverse ==
  LET InvalidCommands ==
        {AddShape("addTask", JUndef),
         Remove(JUndef),
         Update(JStr("t1"), JUndef),
         AddShape("bogus", JUndef),
         NonObjectCandidate("null")}
  IN  ValidCommands \cup InvalidCommands

RECURSIVE SeqsUpTo(_, _)
SeqsUpTo(S, n) ==
  IF n = 0 THEN {<<>>}
  ELSE LET shorter == SeqsUpTo(S, n - 1)
       IN shorter \cup {Append(q, c) : q \in {r \in shorter : Len(r) = n - 1}, c \in S}

\* A batch that rebuilds the diagram: clear, two shapes and the flow
\* between them.
ClearAndBuild ==
  <<Clear, AddShape("addStartEvent", JStr("s1")), AddShape("addTask", JStr("t1")),
    AddFlow(JStr("s1"), JStr("t1"))>>

\* What the user types into the chat box or passes to sendMessage.
Hello == <<Run(FALSE, 5)>>

MissingId ==
  Content("{message:ok,commands:[{action:removeElement}]}",
          Json("object", JStr("ok"), CommandArray(<<Remove(JUndef)>>)))

\* choices[0].message.content missing or empty.
NoContent == Content("", Json("SyntaxError", JUndef, NoCommands))

\* --------------------------------------------------------------- frames
NoText == [js |-> "undefined", runs |-> <<>>]
NoResponse == [kind |-> "none", message |-> JUndef, commands |-> <<>>, error |-> NoError]
NoContext == [present |-> FALSE, summaries |-> <<>>]

Frame(fn, pc, message) ==
  LET NoFile == [name |-> "", lastDot |-> 0, lowerSuffix |-> "", size |-> 0]
      NoValidation == [valid |-> FALSE, errors |-> <<>>]
  IN  [fn |-> fn, pc |-> pc, message |-> message, context |-> NoContext,
       status |-> "", reply |-> NoContent, response |-> NoResponse,
       commands |-> <<>>, idx |-> 1, results |-> <<>>, before |-> <<>>,
       argument |-> JUndef, validation |-> NoValidation, request |-> <<>>,
       promise |-> 0, file |-> NoFile]

Pending(f) == frames[f].pc # "done"

\* ------------------------------------------------- diagram context
Summary(el) ==
  LET \* businessObject.name || ''
      NameOf(shape) ==
        IF \E p \in shape.bo : p[1] = "name"
        THEN (CHOOSE p \in shape.bo : p[1] = "name")[2]
        ELSE ""
  IN  [id |-> el.id, type |-> el.type, name |-> NameOf(el), x |-> el.x, y |-> el.y,
       sourceId |-> el.source, targetId |-> el.target]

\* The forEach callback without its label check.
RECURSIVE SummariesWithLabels(_)
SummariesWithLabels(els) ==
  IF Len(els) = 0 THEN <<>>
  ELSE (IF Head(els).type \in {"bpmn:Process", "bpmn:Collaboration"}
        THEN <<>> ELSE <<Summary(Head(els))>>) \o SummariesWithLabels(Tail(els))

RECURSIVE Summaries(_)
Summaries(els) ==
  IF Len(els) = 0 THEN <<>>
  ELSE (IF Head(els).type \in {"bpmn:Process", "bpmn:Collaboration", "label"}
        THEN <<>> ELSE <<Summary(Head(els))>>) \o Summaries(Tail(els))

getDiagramContext(els) == [present |-> TRUE, summaries |-> Summaries(els)]

\* ------------------------------------------------------- conversation
\* Date.now() read after it returned t: the same millisecond or a later
\* one (how much later adds nothing to the order of the values).
DateNow(t) == {t, t + 1}

\* The first read of Date.now() in a run of the main thread that follows a
\* user event, a network response or an import: time has passed since t.
DateNowAfterWait(t) == {t + 1}

ChatMessage(id, role, content) == [id |-> id, role |-> role, content |-> content]

\* addChatMessage putting the new message in front.
addChatMessageNewestFirst(messages, id, role, content) ==
  <<ChatMessage(id, role, content)>> \o messages

\* addChatMessage with id the value Date.now() returns in it.
addChatMessage(messages, id, role, content) ==
  Append(messages, ChatMessage(id, role, content))

RECURSIVE FailedErrors(_)
FailedErrors(results) ==
  IF Len(results) = 0 THEN <<>>
  ELSE (IF ~Head(results).success THEN <<Head(results).error>> ELSE <<>>)
       \o FailedErrors(Tail(results))

\* The notice carrying the first failure only.
WithFailureNoticeFirst(messages, id, results) ==
  IF Len(FailedErrors(results)) > 0
  THEN addChatMessage(messages, id, "system",
         [kind |-> "Some commands failed", errors |-> <<Head(FailedErrors(results))>>])
  ELSE messages

\* The notice of handleSendMessage after executeCommands has returned.
WithFailureNotice(messages, id, results) ==
  IF Len(FailedErrors(results)) > 0
  THEN addChatMessage(messages, id, "system",
         [kind |-> "Some commands failed", errors |-> FailedErrors(results)])
  ELSE messages

\* ------------------------------------------------------------ sendMessage
\* The messages of the request body: the system prompt, the diagram
\* context when the caller passed a non-empty one, the user's message.
SYSTEM_PROMPT == "You are a BPMN expert assistant"

RequestMessages(userMessage, currentDiagramContext) ==
  <<[role |-> "system", content |-> SYSTEM_PROMPT]>>
  \o (IF currentDiagramContext.present
      THEN <<[role |-> "system", content |-> currentDiagramContext]>>
      ELSE <<>>)
  \o <<[role |-> "user", content |-> userMessage.runs]>>

\* The checks of sendMessage before it sets the in-flight flag: the
\* failure it throws, or NoResponse when it goes on to the request.
Rejection(message) ==
  IF ~apiKey THEN Failure("API key not configured", "")
  ELSE LET messageValidation == validateMessage(message)
       IN IF ~messageValidation.valid
          THEN Failure(messageValidation.errors[1], "")
          ELSE NoResponse

\* The in-flight flag when sendMessage leaves through its finally.
InFlightAfterLeak(resp) == resp.kind = "error"

InFlightAfter(resp) == FALSE

\* The guard of handleSendMessage: no text, or a request in flight.
SendBlockedTextOnly(message) == TextLength(message) = 0

SendBlocked(message) == TextLength(message) = 0 \/ isProcessing

\* store.isAiProcessing when handleSendMessage resets it at the end of its
\* try only: an exchange that ends in the catch leaves it set.
AiProcessingAfterTryOnly(resp) == resp.kind = "error"

\* store.isAiProcessing when handleSendMessage leaves through its finally.
AiProcessingAfter(resp) == FALSE

\* sendMessage settles with resp (catch and finally of sendMessage) and
\* its caller goes on: a direct caller just holds the response;
\* handleSendMessage records the reply or the error, runs the batch up to
\* its first suspension and, when the batch is over, leaves through its
\* finally.
Settle(f, resp, content) ==
  /\ isProcessing' = InFlightAfter(resp)
  /\ error' = IF resp.kind = "error" THEN resp.error ELSE error
  /\ UNCHANGED <<apiKey, hasModeler, fetchCalls, editor, dialog, settings>>
  /\ IF frames[f].fn = "sendMessage"
     THEN /\ frames' = [frames EXCEPT ![f].pc = "done", ![f].response = resp,
                                     ![f].reply = content]
          /\ UNCHANGED <<elements, chatMessages, isAiProcessing, now>>
     ELSE IF resp.kind = "error"
     THEN /\ frames' = [frames EXCEPT ![f].pc = "done", ![f].response = resp,
                                     ![f].reply = content]
          /\ \E t \in DateNowAfterWait(now) :
               /\ chatMessages' = addChatMessage(chatMessages, t, "system",
                                    [kind |-> "Error", errors |-> <<resp.error>>])
               /\ now' = t
          /\ isAiProcessing' = AiProcessingAfter(resp)
          /\ UNCHANGED elements
     ELSE \E t1 \in DateNowAfterWait(now) :
          LET replied == addChatMessage(chatMessages, t1, "assistant", resp.message)
          IN IF Len(resp.commands) > 0 /\ hasModeler
             THEN LET run == RunBatch(elements, resp.commands, 1, <<>>)
                  IN /\ elements' = run.elements
                     /\ frames' = [frames EXCEPT ![f].pc = run.pc,
                                     ![f].response = resp,
                                     ![f].reply = content,
                                     ![f].commands = resp.commands,
                                     ![f].before = elements,
                                     ![f].idx = run.idx,
                                     ![f].results = run.results]
                     /\ IF run.pc = "done"
                        THEN /\ \E t2 \in DateNow(t1) :
                                  /\ chatMessages' = WithFailureNotice(replied, t2, run.results)
                                  /\ now' = IF chatMessages' = replied THEN t1 ELSE t2
                             /\ isAiProcessing' = AiProcessingAfter(resp)
                        ELSE /\ chatMessages' = replied
                             /\ now' = t1
                             /\ UNCHANGED isAiProcessing
             ELSE /\ frames' = [frames EXCEPT ![f].pc = "done", ![f].response = resp,
                                     ![f].reply = content]
                  /\ chatMessages' = replied
                  /\ now' = t1
                  /\ isAiProcessing' = AiProcessingAfter(resp)
                  /\ UNCHANGED elements

\* sendMessage issuing the request again when fetch rejects.
FetchSettlesRetry(f) ==
  /\ f \in 1..Len(frames)
  /\ frames[f].pc = "fetch"
  /\ \/ /\ fetchCalls' = fetchCalls + 1
        /\ UNCHANGED <<elements, frames, chatMessages, isProcessing, error,
                       isAiProcessing, apiKey, hasModeler, now, editor, dialog, settings>>
     \/ /\ \E status \in {"ok", "notOk"} :
             frames' = [frames EXCEPT ![f].pc = "body", ![f].status = status]
        /\ UNCHANGED <<elements, chatMessages, isProcessing, error,
                       isAiProcessing, apiKey, hasModeler, fetchCalls, now, editor, dialog, settings>>

\* fetch settles: it rejects (network error), or resolves with a response
\* whose body sendMessage then awaits.
FetchSettles(f) ==
  /\ f \in 1..Len(frames)
  /\ frames[f].pc = "fetch"
  /\ \/ Settle(f, Failure("Failed to fetch", ""), NoContent)
     \/ /\ \E status \in {"ok", "notOk"} :
             frames' = [frames EXCEPT ![f].pc = "body", ![f].status = status]
        /\ UNCHANGED <<elements, chatMessages, isProcessing, error,
                       isAiProcessing, apiKey, hasModeler, fetchCalls, now, editor, dialog, settings>>

\* response.json() settles.
BodySettles(f) ==
  LET \* What response.json() gives: kind "invalid" when it rejects, else the
      \* data with its error.message (apiError) and its completion text.
      Body(kind, apiError, content) == [kind |-> kind, apiError |-> apiError, content |-> content]
      \* What sendMessage makes of the settled request.
      ResponseOf(status, body) ==
        IF status = "notOk"
        THEN (IF body.kind = "data" /\ body.apiError # ""
              THEN Failure(body.apiError, "")
              ELSE Failure("API request failed", status))
        ELSE IF body.kind = "invalid" THEN Failure("SyntaxError", "")
        ELSE IF body.content.raw = "" THEN Failure("No response from AI", "")
        ELSE ParseReply(body.content)
      Bodies ==
        LET Contents ==
              LET ClearThenFlow ==
                    Content("{message:redo,commands:[clear,addSequenceFlow s1 t1,addTask t1]}",
                            Json("object", JStr("redo"),
                                 CommandArray(<<Clear, AddFlow(JStr("s1"), JStr("t1")),
                                                AddShape("addTask", JStr("t1"))>>)))
                  PartlyFailing ==
                    Content("{commands:[addTask t2,addSequenceFlow t2 zz,removeElement t1]}",
                            Json("object", JUndef,
                                 CommandArray(<<AddShape("addTask", JStr("t2")),
                                                AddFlow(JStr("t2"), JStr("zz")),
                                                Remove(JStr("t1"))>>)))
                  Plan ==
                    Content("{message:plan,commands:[clear,addStartEvent s1,addTask t1]}",
                            Json("object", JStr("plan"),
                                 CommandArray(<<Clear, AddShape("addStartEvent", JStr("s1")),
                                                AddShape("addTask", JStr("t1"))>>)))
                  MessageOnly ==
                    Content("{message:hi}", Json("object", JStr("hi"), NoCommands))
                  NotAnArray ==
                    Content("{message:ok,commands:x}",
                            Json("object", JStr("ok"), [js |-> "string", list |-> <<>>]))
                  JsonNull == Content("null", Json("null", JUndef, NoCommands))
                  JsonNumber == Content("42", Json("number", JUndef, NoCommands))
                  \* Completion texts of the model.
                  NotJson == Content("not json", Json("SyntaxError", JUndef, NoCommands))
              IN  {NotJson, JsonNumber, JsonNull, MissingId, NotAnArray, MessageOnly, Plan,
                   PartlyFailing, ClearThenFlow}
        IN  {Body("invalid", "", NoContent), Body("data", "", NoContent),
             Body("data", "quota exceeded", NoContent)}
            \cup {Body("data", "", c) : c \in Contents}
  IN  /\ f \in 1..Len(frames)
      /\ frames[f].pc = "body"
      /\ \E body \in Bodies :
           /\ frames[f].status = "notOk" => body.content = NoContent
           /\ Settle(f, ResponseOf(frames[f].status, body),
                     IF frames[f].status = "ok" /\ body.kind = "data"
                     THEN body.content ELSE NoContent)

\* sendMessage(text) by a caller that awaits each call before the next.
SendMessageCall ==
  LET Texts ==
        {[js |-> "undefined", runs |-> <<>>],
         Text(<<>>),
         Text(<<Run(TRUE, 3)>>),
         Text(Hello),
         Text(<<Run(TRUE, 2), Run(FALSE, 5), Run(TRUE, 1)>>),
         Text(<<Run(FALSE, MAX_MESSAGE_LENGTH)>>),
         Text(<<Run(TRUE, 2), Run(FALSE, MAX_MESSAGE_LENGTH), Run(TRUE, 2)>>),
         Text(<<Run(FALSE, MAX_MESSAGE_LENGTH + 1)>>),
         Text(<<Run(FALSE, 5000), Run(TRUE, 1), Run(FALSE, 5000)>>)}
  IN  /\ Len(frames) < MaxExchanges
      /\ \A f \in 1..Len(frames) : ~Pending(f)
      /\ \E text \in Texts :
           LET rejection == Rejection(text)
           IN IF rejection.kind = "error"
              THEN /\ frames' = Append(frames, [Frame("sendMessage", "done", text)
                                                  EXCEPT !.response = rejection])
                   /\ UNCHANGED <<isProcessing, error, fetchCalls>>
              ELSE /\ frames' = Append(frames, [Frame("sendMessage", "fetch", text)
                                                  EXCEPT !.request = RequestMessages(text, NoContext)])
                   /\ isProcessing' = TRUE
                   /\ error' = NoError
                   /\ fetchCalls' = fetchCalls + 1
      /\ UNCHANGED <<elements, chatMessages, isAiProcessing, apiKey, hasModeler,
                     now, editor, dialog, settings>>

\* ------------------------------------------------------ handleSendMessage
\* The send button or Enter in the chat box, up to the await of
\* sendMessage (or to the end when sendMessage throws at once).
HandleSendMessage ==
  LET PanelInputs ==
        {Text(<<>>),
         Text(<<Run(TRUE, 3)>>),
         Text(<<Run(TRUE, 2), Run(FALSE, 5), Run(TRUE, 1)>>),
         Text(<<Run(TRUE, 1), Run(FALSE, MAX_MESSAGE_LENGTH + 1)>>)}
  IN  /\ Len(frames) < MaxExchanges
      /\ \E input \in PanelInputs :
           LET message == Trim(input.runs)
           IN IF SendBlocked(message)
              THEN UNCHANGED vars
              ELSE \E t1 \in DateNowAfterWait(now) :
                   LET sent == addChatMessage(chatMessages, t1, "user", message)
                       context == IF hasModeler THEN getDiagramContext(elements)
                                  ELSE NoContext
                       rejection == Rejection(Text(message))
                       frame == [Frame("handleSendMessage", "fetch", Text(message))
                                   EXCEPT !.context = context]
                   IN /\ UNCHANGED <<elements, apiKey, hasModeler, editor, dialog, settings>>
                      /\ IF rejection.kind = "error"
                         THEN /\ frames' = Append(frames, [frame EXCEPT !.pc = "done",
                                                             !.response = rejection])
                              /\ \E t2 \in DateNow(t1) :
                                   /\ chatMessages' = addChatMessage(sent, t2, "system",
                                        [kind |-> "Error", errors |-> <<rejection.error>>])
                                   /\ now' = t2
                              /\ isAiProcessing' = AiProcessingAfter(rejection)
                              /\ UNCHANGED <<isProcessing, error, fetchCalls>>
                         ELSE /\ frames' = Append(frames,
                                         [frame EXCEPT !.request =
                                            RequestMessages(Text(message), context)])
                              /\ chatMessages' = sent
                              /\ now' = t1
                              /\ isAiProcessing' = TRUE
                              /\ isProcessing' = TRUE
                              /\ error' = NoError
                              /\ fetchCalls' = fetchCalls + 1

\* The user deletes a task on the canvas (the selected element).
UserDelete ==
  /\ \E i \in 1..Len(elements) :
       /\ elements[i].type = "bpmn:Task"
       /\ elements' = Without(elements, elements[i].id)
  /\ UNCHANGED <<frames, chatMessages, isProcessing, error, isAiProcessing,
                 apiKey, hasModeler, fetchCalls, now, editor, dialog, settings>>

\* ------------------------------------------- executeCommands, called directly
\* executeCommands(batch) by a caller that holds the service: the loop runs
\* to its first suspension or to its end.
ExecuteCommandsCall ==
  LET Batches == SeqsUpTo(CommandUniverse, MaxBatch) \cup {ClearAndBuild}
  IN  /\ Len(frames) = 0
      /\ \E batch \in Batches :
           LET run == RunBatch(elements, batch, 1, <<>>)
           IN /\ elements' = run.elements
              /\ frames' = <<[Frame("executeCommands", run.pc, NoText) EXCEPT
                                !.commands = batch, !.idx = run.idx,
                                !.results = run.results, !.before = elements]>>
      /\ UNCHANGED <<chatMessages, isProcessing, error, isAiProcessing, apiKey,
                     hasModeler, fetchCalls, now, editor, dialog, settings>>

\* modeler.importXML(BLANK_DIAGRAM) resolves for the clear command at
\* frames[f].idx: clearDiagram returns and the loop goes on; at its end
\* handleSendMessage adds its notice and leaves through its finally.
ImportResolves(f) ==
  /\ f \in 1..Len(frames)
  /\ frames[f].pc = "import"
  /\ LET fr == frames[f]
         outcome == clearDiagram(elements)
         run == RunBatch(outcome.elements, fr.commands, fr.idx + 1,
                         Append(fr.results, CommandResult(fr.commands[fr.idx], outcome)))
     IN /\ elements' = run.elements
        /\ frames' = [frames EXCEPT ![f].pc = run.pc, ![f].idx = run.idx,
                                    ![f].results = run.results]
        /\ IF fr.fn = "handleSendMessage" /\ run.pc = "done"
           THEN /\ \E t \in DateNowAfterWait(now) :
                     /\ chatMessages' = WithFailureNotice(chatMessages, t, run.results)
                     /\ now' = IF chatMessages' = chatMessages THEN now ELSE t
                /\ isAiProcessing' = AiProcessingAfter(fr.response)
           ELSE UNCHANGED <<chatMessages, isAiProcessing, now>>
  /\ UNCHANGED <<isProcessing, error, apiKey, hasModeler, fetchCalls, editor, dialog, settings>>

\* ------------------------------------------ getDiagramContext, called directly

GetDiagramContextCall ==
  /\ Len(frames) = 0
  /\ frames' = <<[Frame("getDiagramContext", "done", NoText) EXCEPT
                   !.context = getDiagramContext(elements)]>>
  /\ UNCHANGED <<elements, chatMessages, isProcessing, error, isAiProcessing,
                 apiKey, hasModeler, fetchCalls, now, editor, dialog, settings>>

\* ------------------------------------------- the validator, called directly
\* What a caller may hand to validateCommand: non-objects, an empty object
\* or array, objects with missing or wrongly typed fields, and commands.
Candidates ==
  CommandUniverse \cup
  {NonObjectCandidate("undefined"), NonObjectCandidate("string"),
   NonObjectCandidate("number"),
   Cmd(JUndef, JUndef, JUndef, JUndef, JUndef, JUndef, JUndef, JUndef),
   Cmd(JNum(5), JStr("t1"), JUndef, JUndef, JUndef, JUndef, JUndef, JUndef),
   AddShape("addTask", JNum(7)),
   AddShapeAt("addTask", JStr("t1"), JUndef, JStr("12"), JUndef),
   AddFlow(JUndef, JStr("t1")),
   AddFlow(JStr("a"), JStr("b")),
   AddFlow(JStr(""), JStr("t1")),
   AddFlow(JStr("s1"), JUndef),
   AddFlow(JStr("s1"), JNum(3)),
   AddFlow(JUndef, JUndef),
   Cmd(JStr(""), JStr("t1"), JUndef, JUndef, JUndef, JUndef, JUndef, JUndef),
   Update(JStr("t1"), JStr("name")),
   Update(JStr("t1"), JNull)}

ValidateCommandCall ==
  /\ Len(frames) = 0
  /\ \E command \in Candidates :
       frames' = <<[Frame("validateCommand", "done", NoText) EXCEPT
                     !.argument = command,
                     !.validation = validateCommand(command)]>>
  /\ UNCHANGED <<elements, chatMessages, isProcessing, error, isAiProcessing,
                 apiKey, hasModeler, fetchCalls, now, editor, dialog, settings>>

ValidateCommandsCall ==
  LET \* What a caller may hand to validateCommands: arrays of candidates and
      \* values that are no array.
      CommandLists ==
        {[isArray |-> TRUE, list |-> list] : list \in SeqsUpTo(Candidates, MaxBatch - 1)}
        \cup {[isArray |-> FALSE, list |-> <<>>]}
  IN  /\ Len(frames) = 0
      /\ \E commands \in CommandLists :
           frames' = <<[Frame("validateCommands", "done", NoText) EXCEPT
                         !.argument = commands,
                         !.validation = validateCommands(commands)]>>
      /\ UNCHANGED <<elements, chatMessages, isProcessing, error, isAiProcessing,
                     apiKey, hasModeler, fetchCalls, now, editor, dialog, settings>>

\* ------------------------------------------------------------ the store
ZOOM_DEFAULT_LEVEL == 1

\* The refs of the store besides chatMessages and isAiProcessing, as set
\* at its definition.
InitialEditor ==
  [isDirty |-> FALSE, currentFileName |-> "null", selectedElement |-> "null",
   zoom |-> ZOOM_DEFAULT_LEVEL, showPalette |-> TRUE, showProperties |-> TRUE,
   showChat |-> FALSE, canUndo |-> FALSE, canRedo |-> FALSE, isLoading |-> FALSE]

\* What the store's actions leave alone: everything outside the store.
OutsideStore ==
  UNCHANGED <<elements, frames, isProcessing, error, apiKey, hasModeler, fetchCalls,
              dialog, settings>>

\* An action of the store that writes refs of editor only.
SetEditor(value) ==
  /\ editor' = value
  /\ UNCHANGED <<chatMessages, isAiProcessing, now>>
  /\ OutsideStore

ZoomLevels == {ZOOM_DEFAULT_LEVEL, 2}

markDirty == SetEditor([editor EXCEPT !.isDirty = TRUE])

markClean == SetEditor([editor EXCEPT !.isDirty = FALSE])

setFileName ==
  LET FileNames == {"null", "order.bpmn"}
  IN  \E name \in FileNames : SetEditor([editor EXCEPT !.currentFileName = name])

setSelectedElement ==
  LET Selections == {"null", "t1"}
  IN  \E element \in Selections : SetEditor([editor EXCEPT !.selectedElement = element])

clearSelection == SetEditor([editor EXCEPT !.selectedElement = "null"])

setZoom == \E value \in ZoomLevels : SetEditor([editor EXCEPT !.zoom = value])

togglePalette == SetEditor([editor EXCEPT !.showPalette = ~@])

toggleProperties == SetEditor([editor EXCEPT !.showProperties = ~@])

toggleChat == SetEditor([editor EXCEPT !.showChat = ~@])

\* store.addChatMessage(message) by any caller.
AddChatMessage ==
  /\ Len(chatMessages) < MaxMessages
  /\ \E role \in {"user", "assistant"}, t \in DateNow(now) :
       /\ t <= MaxNow
       /\ chatMessages' = addChatMessage(chatMessages, t, role, Hello)
       /\ now' = t
  /\ UNCHANGED <<isAiProcessing, editor, dialog, settings>>
  /\ OutsideStore

clearChatMessages ==
  /\ chatMessages' = <<>>
  /\ UNCHANGED <<isAiProcessing, editor, now>>
  /\ OutsideStore

setAiProcessing ==
  /\ \E processing \in BOOLEAN : isAiProcessing' = processing
  /\ UNCHANGED <<chatMessages, editor, now>>
  /\ OutsideStore

setUndoRedo ==
  \E undo \in BOOLEAN, redo \in BOOLEAN :
    SetEditor([editor EXCEPT !.canUndo = undo, !.canRedo = redo])

setLoading == \E loading \in BOOLEAN : SetEditor([editor EXCEPT !.isLoading = loading])

\* reset leaves the three visibility flags and isLoading as they are.
reset ==
  /\ editor' = [editor EXCEPT !.isDirty = FALSE, !.currentFileName = "null",
                              !.selectedElement = "null", !.zoom = ZOOM_DEFAULT_LEVEL,
                              !.canUndo = FALSE, !.canRedo = FALSE]
  /\ chatMessages' = <<>>
  /\ isAiProcessing' = FALSE
  /\ UNCHANGED now
  /\ OutsideStore

\* ------------------------------------------- notifications and confirm
MAX_FILE_SIZE == 10485760

\* useNotifications at module load.  A promise returned by confirm() is a
\* position of promises, holding "pending" or the value it was resolved
\* with; confirmResolve is the position of the promise whose resolve
\* function is kept, 0 for null.
InitialDialog ==
  [showConfirmDialog |-> FALSE, confirmTitle |-> "", confirmMessage |-> "",
   confirmResolve |-> 0, promises |-> <<>>, notifications |-> <<>>,
   notificationId |-> 0]

notify(d, type, title) ==
  LET NOTIFICATION_MAX_VISIBLE == 5
      id == d.notificationId + 1
      pushed == Append(d.notifications, [id |-> id, type |-> type, title |-> title])
  IN [d EXCEPT !.notificationId = id,
               !.notifications = IF Len(pushed) > NOTIFICATION_MAX_VISIBLE
                                 THEN Tail(pushed) ELSE pushed]

confirm(d, title, message) ==
  [d EXCEPT !.confirmTitle = title, !.confirmMessage = message,
            !.showConfirmDialog = TRUE,
            !.promises = Append(@, "pending"),
            !.confirmResolve = Len(d.promises) + 1]

resolveConfirm(d, result) ==
  [d EXCEPT !.showConfirmDialog = FALSE,
            !.promises = IF d.confirmResolve # 0
                         THEN [@ EXCEPT ![d.confirmResolve] =
                                 IF result THEN "true" ELSE "false"]
                         ELSE @,
            !.confirmResolve = 0]

validateFile(file) ==
  LET \* getFileExtension: from the last dot on, in lower case; the name is
      \* given with the place of its last dot, 0 when it has none.
      getFileExtension(picked) ==
        IF picked.lastDot = 0 THEN "" ELSE picked.lowerSuffix
      ALLOWED_EXTENSIONS == <<".bpmn", ".xml">>
      errors ==
        (IF file.size > MAX_FILE_SIZE
         THEN <<"File size exceeds maximum of 10MB">> ELSE <<>>)
        \o (IF ~Includes(ALLOWED_EXTENSIONS, getFileExtension(file))
            THEN <<"Invalid file type. Allowed types: .bpmn, .xml">> ELSE <<>>)
  IN [valid |-> Len(errors) = 0, errors |-> errors]

\* What the handlers of App.vue leave alone.
OutsideApp ==
  UNCHANGED <<chatMessages, isProcessing, error, isAiProcessing, apiKey,
              hasModeler, fetchCalls, now, settings>>

\* createNewDiagram of the canvas and what handleNew does after it: the
\* import of the blank diagram is started and not awaited.
StartNewDiagram(d, frame) ==
  /\ editor' = [editor EXCEPT !.isLoading = TRUE, !.currentFileName = "null",
                              !.isDirty = FALSE]
  /\ dialog' = notify(d, "success", "New Diagram")
  /\ frames' = frame

\* New in the toolbar, or Ctrl+N.
handleNew ==
  /\ Len(frames) < MaxHandlers
  /\ IF editor.isDirty
     THEN /\ dialog' = confirm(dialog, "Unsaved Changes", "Create new diagram anyway?")
          /\ frames' = Append(frames, [Frame("handleNew", "confirm", NoText) EXCEPT
                                         !.promise = Len(dialog.promises) + 1])
          /\ UNCHANGED editor
     ELSE StartNewDiagram(dialog, Append(frames, Frame("handleNew", "importBlank", NoText)))
  /\ UNCHANGED elements
  /\ OutsideApp

\* A file picked in the file input or the toolbar.
handleOpenFile ==
  LET \* The files the user may pick or drop.
      Files ==
        {[name |-> "order.bpmn", lastDot |-> 6, lowerSuffix |-> ".bpmn", size |-> 2048],
         [name |-> "ORDER.XML", lastDot |-> 6, lowerSuffix |-> ".xml", size |-> MAX_FILE_SIZE],
         [name |-> "notes.txt", lastDot |-> 6, lowerSuffix |-> ".txt", size |-> 2048],
         [name |-> "README", lastDot |-> 0, lowerSuffix |-> "", size |-> 2048],
         [name |-> "huge.xml", lastDot |-> 5, lowerSuffix |-> ".xml", size |-> MAX_FILE_SIZE + 1]}
  IN  /\ Len(frames) < MaxHandlers
      /\ \E file \in Files :
           LET frame == [Frame("handleOpenFile", "read", NoText) EXCEPT !.file = file]
           IN IF ~validateFile(file).valid
              THEN /\ dialog' = notify(dialog, "error", "Invalid File")
                   /\ frames' = Append(frames, [frame EXCEPT !.pc = "done"])
              ELSE IF editor.isDirty
              THEN /\ dialog' = confirm(dialog, "Unsaved Changes", "Open another file anyway?")
                   /\ frames' = Append(frames, [frame EXCEPT !.pc = "confirm",
                                                  !.promise = Len(dialog.promises) + 1])
              ELSE /\ frames' = Append(frames, frame)
                   /\ UNCHANGED dialog
      /\ UNCHANGED <<elements, editor>>
      /\ OutsideApp

\* A button of the dialog or a click on its overlay: resolveConfirm, and
\* the handler whose promise it resolves goes on.
ResolveConfirm ==
  LET \* The handlers that await the promise at position p.
      Awaiting(p) ==
        {f \in 1..Len(frames) : frames[f].pc = "confirm" /\ frames[f].promise = p}
  IN  /\ dialog.showConfirmDialog
      /\ \E result \in BOOLEAN :
           LET resolved == resolveConfirm(dialog, result)
               waiting == Awaiting(dialog.confirmResolve)
           IN IF waiting = {}
              THEN /\ dialog' = resolved
                   /\ UNCHANGED <<frames, editor>>
              ELSE LET f == CHOOSE g \in waiting : TRUE
                   IN IF ~result
                      THEN /\ dialog' = resolved
                           /\ frames' = [frames EXCEPT ![f].pc = "done"]
                           /\ UNCHANGED editor
                      ELSE IF frames[f].fn = "handleNew"
                      THEN StartNewDiagram(resolved, [frames EXCEPT ![f].pc = "importBlank"])
                      ELSE /\ dialog' = resolved
                           /\ frames' = [frames EXCEPT ![f].pc = "read"]
                           /\ UNCHANGED editor
      /\ UNCHANGED elements
      /\ OutsideApp

\* The import started by createNewDiagram settles.
BlankImported(f) ==
  /\ f \in 1..Len(frames)
  /\ frames[f].pc = "importBlank"
  /\ frames' = [frames EXCEPT ![f].pc = "done"]
  /\ elements' = BLANK_DIAGRAM
  /\ \E scale \in ZoomLevels :
       editor' = [editor EXCEPT !.isLoading = FALSE, !.zoom = scale]
  /\ UNCHANGED dialog
  /\ OutsideApp

\* The FileReader of handleOpenFile settles: onerror, or onload, which
\* starts the import.
ReaderSettles(f) ==
  /\ f \in 1..Len(frames)
  /\ frames[f].pc = "read"
  /\ \/ /\ dialog' = notify(dialog, "error", "Read Error")
        /\ frames' = [frames EXCEPT ![f].pc = "done"]
        /\ UNCHANGED editor
     \/ /\ editor' = [editor EXCEPT !.isLoading = TRUE]
        /\ frames' = [frames EXCEPT ![f].pc = "importFile"]
        /\ UNCHANGED dialog
  /\ UNCHANGED elements
  /\ OutsideApp

\* The import of the file's content settles.
FileImported(f) ==
  /\ f \in 1..Len(frames)
  /\ frames[f].pc = "importFile"
  /\ frames' = [frames EXCEPT ![f].pc = "done"]
  /\ \/ /\ elements' = SampleDiagram
        /\ \E scale \in ZoomLevels :
             editor' = [editor EXCEPT !.isLoading = FALSE, !.zoom = scale,
                                     !.currentFileName = frames[f].file.name,
                                     !.isDirty = FALSE]
        /\ dialog' = notify(dialog, "success", "File Loaded")
     \/ /\ editor' = [editor EXCEPT !.isLoading = FALSE]
        /\ dialog' = notify(dialog, "error", "Failed to Load")
        /\ UNCHANGED elements
  /\ OutsideApp

\* A notification goes: its timer, or its dismiss button.
Dismiss ==
  LET dismiss(d, id) ==
        [d EXCEPT !.notifications = SelectSeq(@, LAMBDA n : n.id # id)]
  IN  /\ \E i \in 1..Len(dialog.notifications) :
           dialog' = dismiss(dialog, dialog.notifications[i].id)
      /\ UNCHANGED <<elements, frames, editor>>
      /\ OutsideApp

\* ------------------------------------------------- settings and storage
DEFAULT_ENDPOINT == [scheme |-> "https", rest |-> "//api.openai.com/v1/chat/completions"]
DEFAULT_MODEL == "gpt-4o-mini"
EmptyUrl == [scheme |-> "", rest |-> ""]

RECURSIVE Xor(_, _)
Xor(a, b) ==
  IF a = 0 THEN b
  ELSE IF b = 0 THEN a
  ELSE (((a % 2) + (b % 2)) % 2) + 2 * Xor(a \div 2, b \div 2)

RECURSIVE trim(_)
trim(text) ==
  LET WhiteSpace ==
        {9, 10, 11, 12, 13, 32, 160, 5760, 8232, 8233, 8239, 8287, 12288, 65279}
          \cup 8192..8202
  IN  IF Len(text) = 0 THEN text
      ELSE IF Head(text) \in WhiteSpace THEN trim(Tail(text))
      ELSE IF text[Len(text)] \in WhiteSpace THEN trim(SubSeq(text, 1, Len(text) - 1))
      ELSE text

validateApiKey(key) ==
  LET PLACEHOLDERS ==
        <<<<121, 111, 117, 114, 45, 97, 112, 105, 45, 107, 101, 121>>,
          <<97, 112, 105, 45, 107, 101, 121, 45, 104, 101, 114, 101>>,
          <<115, 107, 45, 120, 120, 120>>,
          <<69, 78, 84, 69, 82, 95, 75, 69, 89>>>>
      includes(text, part) ==
        \E i \in 0..(Len(text) - Len(part)) : SubSeq(text, i + 1, i + Len(part)) = part
      \* toLowerCase on the letters the inputs hold (A-Z).
      toLowerCase(text) ==
        [i \in 1..Len(text) |-> IF text[i] \in 65..90 THEN text[i] + 32 ELSE text[i]]
      API_KEY_MIN_LENGTH == 20
  IN  IF Len(key) = 0
      THEN [valid |-> FALSE, errors |-> <<"API key is required">>]
      ELSE LET trimmed == trim(key)
               errors ==
                 (IF Len(trimmed) < API_KEY_MIN_LENGTH
                  THEN <<"API key appears to be too short">> ELSE <<>>)
                 \o (IF \E p \in 1..Len(PLACEHOLDERS) :
                          includes(toLowerCase(trimmed), PLACEHOLDERS[p])
                     THEN <<"Please enter a valid API key">> ELSE <<>>)
           IN [valid |-> Len(errors) = 0, errors |-> errors]

\* new URL(url) throws on a string without a scheme.
validateUrl(url) ==
  IF url = EmptyUrl
  THEN [valid |-> FALSE, errors |-> <<"URL is required">>]
  ELSE LET errors ==
             IF url.scheme = "" THEN <<"Invalid URL format">>
             ELSE IF url.scheme \notin {"http", "https"}
             THEN <<"URL must use http or https protocol">>
             ELSE <<>>
       IN [valid |-> Len(errors) = 0, errors |-> errors]

\* The character of a base64 digit, and back.
Base64Char(d) ==
  IF d < 26 THEN 65 + d
  ELSE IF d < 52 THEN 97 + (d - 26)
  ELSE IF d < 62 THEN 48 + (d - 52)
  ELSE IF d = 62 THEN 43 ELSE 47

BASE64_PAD == 61

\* btoa: throws on a character above U+00FF, else three bytes to four
\* digits, padded with "=".
RECURSIVE Base64Encode(_)
Base64Encode(bytes) ==
  IF Len(bytes) = 0 THEN <<>>
  ELSE LET b1 == bytes[1]
           b2 == IF Len(bytes) > 1 THEN bytes[2] ELSE 0
           b3 == IF Len(bytes) > 2 THEN bytes[3] ELSE 0
           n == (b1 * 256 + b2) * 256 + b3
           c1 == Base64Char(n \div 262144)
           c2 == Base64Char((n \div 4096) % 64)
           c3 == IF Len(bytes) > 1 THEN Base64Char((n \div 64) % 64) ELSE BASE64_PAD
           c4 == IF Len(bytes) > 2 THEN Base64Char(n % 64) ELSE BASE64_PAD
       IN <<c1, c2, c3, c4>>
            \o (IF Len(bytes) > 3 THEN Base64Encode(SubSeq(bytes, 4, Len(bytes))) ELSE <<>>)

btoa(text) ==
  LET LATIN1_MAX == 255
  IN  IF \E i \in 1..Len(text) : text[i] > LATIN1_MAX
      THEN [threw |-> "InvalidCharacterError", value |-> <<>>]
      ELSE [threw |-> "", value |-> Base64Encode(text)]

RECURSIVE Base64Decode(_)
Base64Decode(chars) ==
  LET Base64Digit(c) == CHOOSE d \in 0..63 : Base64Char(d) = c
  IN  IF Len(chars) = 0 THEN <<>>
      ELSE LET pad == Cardinality({i \in 3..4 : chars[i] = BASE64_PAD})
               d(i) == IF chars[i] = BASE64_PAD THEN 0 ELSE Base64Digit(chars[i])
               n == ((d(1) * 64 + d(2)) * 64 + d(3)) * 64 + d(4)
               bytes == <<n \div 65536, (n \div 256) % 256, n % 256>>
           IN SubSeq(bytes, 1, 3 - pad) \o Base64Decode(SubSeq(chars, 5, Len(chars)))

\* atob: throws on what is not base64.
atob(encoded) ==
  IF \/ Len(encoded) % 4 # 0
     \/ \E i \in 1..Len(encoded) :
          /\ encoded[i] \notin {Base64Char(d) : d \in 0..63}
          /\ ~(encoded[i] = BASE64_PAD /\ i > Len(encoded) - 2)
  THEN [threw |-> "InvalidCharacterError", value |-> <<>>]
  ELSE [threw |-> "", value |-> Base64Decode(encoded)]

XorWithKey(text) ==
  LET \* The API key and what is stored for it are strings of UTF-16 code units,
      \* written as sequences of numbers.  An endpoint is a string split where
      \* the URL parser splits it: the scheme before the first colon ("" when
      \* the string has none) and the rest.  A model name is a string.
      OBFUSCATION_KEY == <<98, 112, 109, 110, 45, 101, 100, 105, 116, 111, 114, 45, 118, 49>>
  IN  [i \in 1..Len(text) |->
         Xor(text[i], OBFUSCATION_KEY[((i - 1) % Len(OBFUSCATION_KEY)) + 1])]

obfuscate(text) ==
  IF Len(text) = 0 THEN [threw |-> "", value |-> <<>>]
  ELSE btoa(XorWithKey(text))

deobfuscate(encoded) ==
  IF Len(encoded) = 0 THEN <<>>
  ELSE LET decoded == atob(encoded)
       IN IF decoded.threw # "" THEN <<>> ELSE XorWithKey(decoded.value)

\* localStorage: an item is present with a value, or absent (getItem
\* gives null).
Absent(empty) == [present |-> FALSE, value |-> empty]
Item(value) == [present |-> TRUE, value |-> value]

EmptyStorage ==
  [bpmn_ai_api_key |-> Absent(<<>>), bpmn_ai_endpoint |-> Absent(EmptyUrl),
   bpmn_ai_model |-> Absent("")]

\* storeApiKey: what it leaves in storage, or the exception of btoa.
storeApiKey(storage, key) ==
  IF Len(key) = 0
  THEN [threw |-> "", storage |-> [storage EXCEPT !.bpmn_ai_api_key = Absent(<<>>)]]
  ELSE LET obfuscated == obfuscate(key)
       IN IF obfuscated.threw # ""
          THEN [threw |-> obfuscated.threw, storage |-> storage]
          ELSE [threw |-> "",
                storage |-> [storage EXCEPT !.bpmn_ai_api_key = Item(obfuscated.value)]]

\* retrieveApiKey; the migration of a plaintext key stores it again and
\* gives the key as it was.
retrieveApiKey(storage) ==
  LET SK_PREFIX == <<115, 107, 45>>
      stored == storage.bpmn_ai_api_key
  IN IF ~stored.present \/ Len(stored.value) = 0 THEN <<>>
     ELSE IF Len(stored.value) >= Len(SK_PREFIX)
             /\ SubSeq(stored.value, 1, Len(SK_PREFIX)) = SK_PREFIX
     THEN stored.value
     ELSE deobfuscate(stored.value)

retrieveEndpoint(storage) ==
  IF storage.bpmn_ai_endpoint.present /\ storage.bpmn_ai_endpoint.value # EmptyUrl
  THEN storage.bpmn_ai_endpoint.value ELSE DEFAULT_ENDPOINT

retrieveModel(storage) ==
  IF storage.bpmn_ai_model.present /\ storage.bpmn_ai_model.value # ""
  THEN storage.bpmn_ai_model.value ELSE DEFAULT_MODEL

Loaded(storage) ==
  LET \* useAiService() over a storage: the refs are loaded from it.  call is
      \* the last call of saveSettings, threw the message of what it threw.
      NoCall == [key |-> <<>>, endpoint |-> EmptyUrl, model |-> "", threw |-> ""]
  IN  [apiKey |-> retrieveApiKey(storage), apiEndpoint |-> retrieveEndpoint(storage),
       modelName |-> retrieveModel(storage), localStorage |-> storage, call |-> NoCall,
       calls |-> 0]

InitialSettings == Loaded(EmptyStorage)

\* The chat panel saves and sends through one useAiService(): apiKey says
\* whether the key in memory is a non-empty string.
OutsideSettings ==
  /\ apiKey' = (Len(settings'.apiKey) # 0)
  /\ UNCHANGED <<elements, chatMessages, frames, isProcessing, error, isAiProcessing,
                 hasModeler, fetchCalls, now, editor, dialog>>

saveSettings(st, key, endpoint, model) ==
  LET join(errors) ==
        IF Len(errors) = 1 THEN errors[1] ELSE errors[1] \o ", " \o errors[2]
      storeModel(storage, value) ==
        [storage EXCEPT !.bpmn_ai_model = IF value # "" THEN Item(value) ELSE Absent("")]
      storeEndpoint(storage, value) ==
        [storage EXCEPT !.bpmn_ai_endpoint = IF value # EmptyUrl THEN Item(value) ELSE Absent(EmptyUrl)]
      finalEndpoint == IF endpoint # EmptyUrl THEN endpoint ELSE DEFAULT_ENDPOINT
      finalModel == IF model # "" THEN model ELSE DEFAULT_MODEL
      keyValidation == validateApiKey(key)
      urlValidation == validateUrl(finalEndpoint)
      call == [key |-> key, endpoint |-> endpoint, model |-> model, threw |-> ""]
      assigned == [st EXCEPT !.apiKey = key, !.apiEndpoint = finalEndpoint,
                             !.modelName = finalModel]
      keyStored == storeApiKey(st.localStorage, key)
  IN IF ~keyValidation.valid
     THEN [st EXCEPT !.call = [call EXCEPT !.threw = join(keyValidation.errors)]]
     ELSE IF ~urlValidation.valid
     THEN [st EXCEPT !.call = [call EXCEPT !.threw = join(urlValidation.errors)]]
     ELSE IF keyStored.threw # ""
     THEN [assigned EXCEPT !.call = [call EXCEPT !.threw = keyStored.threw]]
     ELSE [assigned EXCEPT
             !.call = call,
             !.localStorage = storeModel(storeEndpoint(keyStored.storage, finalEndpoint),
                                         finalModel)]

\* Save in the settings panel.
SaveSettings ==
  LET Models == {"", DEFAULT_MODEL, "gpt-4o"}
      Endpoints ==
        {EmptyUrl, DEFAULT_ENDPOINT,
         [scheme |-> "http", rest |-> "//localhost:11434/v1/chat/completions"],
         [scheme |-> "ftp", rest |-> "//files.example.com/models"],
         [scheme |-> "", rest |-> "api.example.com/v1"]}
      \* What the settings panel can hold when Save is pressed.
      Keys ==
        {<<>>,
         <<115, 107, 45, 115, 104, 111, 114, 116>>,
         <<115, 107, 45, 112, 114, 111, 106, 45, 48, 49, 50, 51, 52, 53, 54, 55, 56, 57, 97, 98, 99, 100, 101, 102, 88, 89, 90>>,
         <<115, 107, 45, 108, 105, 118, 101, 45, 90, 89, 88, 87, 86, 85, 84, 83, 82, 81, 57, 56, 55, 54, 53, 52, 51, 50, 49, 48>>,
         <<32, 32, 115, 107, 45, 112, 114, 111, 106, 45, 48, 49, 50, 51, 52, 53, 54, 55, 56, 57, 97, 98, 99, 100, 101, 102, 88, 89, 90, 32>>,
         <<83, 75, 45, 88, 88, 88, 88, 88, 88, 88, 88, 88, 88, 88, 88, 88, 88, 88, 88, 88, 88, 88, 88, 88, 88, 88, 88>>,
         <<115, 107, 45, 112, 114, 111, 106, 45, 48, 49, 50, 51, 52, 53, 54, 55, 56, 57, 97, 98, 99, 100, 101, 102, 88, 89, 90, 8203>>}
  IN  /\ settings.calls < MaxSaves
      /\ \E key \in Keys, endpoint \in Endpoints, model \in Models :
           settings' = [saveSettings(settings, key, endpoint, model) EXCEPT !.calls = @ + 1]
      /\ OutsideSettings

ClearSettings ==
  LET clearSettings(st) ==
        LET clearCredentials(storage) == EmptyStorage
        IN  [st EXCEPT !.apiKey = <<>>, !.apiEndpoint = DEFAULT_ENDPOINT,
                       !.modelName = DEFAULT_MODEL,
                       !.localStorage = clearCredentials(st.localStorage)]
  IN  /\ settings' = clearSettings(settings)
      /\ OutsideSettings

\* The page is loaded again: useAiService() reads the storage.
Reload ==
  /\ settings' = [Loaded(settings.localStorage) EXCEPT !.calls = settings.calls]
  /\ OutsideSettings

NextSettings ==
  \/ SaveSettings
  \/ ClearSettings
  \/ Reload

\* ------------------------------------------------------- specifications
NextConfirm ==
  \/ markDirty
  \/ handleNew
  \/ handleOpenFile
  \/ ResolveConfirm
  \/ \E f \in 1..Len(frames) : BlankImported(f)
  \/ \E f \in 1..Len(frames) : ReaderSettles(f)
  \/ \E f \in 1..Len(frames) : FileImported(f)
  \/ Dismiss

InitStore ==
  /\ elements = SampleDiagram
  /\ frames = <<>>
  /\ chatMessages = <<>>
  /\ isProcessing = FALSE
  /\ error = NoError
  /\ isAiProcessing = FALSE
  /\ apiKey = FALSE
  /\ hasModeler = FALSE
  /\ fetchCalls = 0
  /\ now = 0
  /\ editor = InitialEditor
  /\ dialog = InitialDialog
  /\ settings = InitialSettings

NextStore ==
  \/ markDirty
  \/ markClean
  \/ setFileName
  \/ setSelectedElement
  \/ clearSelection
  \/ setZoom
  \/ togglePalette
  \/ toggleProperties
  \/ toggleChat
  \/ AddChatMessage
  \/ clearChatMessages
  \/ setAiProcessing
  \/ setUndoRedo
  \/ setLoading
  \/ reset

NextValidate ==
  \/ ValidateCommandCall
  \/ ValidateCommandsCall

InitContext ==
  LET \* The diagrams getDiagramContext may be called on: a process or a
      \* collaboration as the root, then up to MaxBatch + 1 elements.
      ContextDiagrams ==
        LET \* The registry holds an element once, a flow after both its endpoints and
            \* a label after its owner.
            RegistryOrdered(els) ==
              LET LabelOwner(el) == SubSeq(el.id, 1, Len(el.id) - 6)
              IN  /\ \A i, j \in 1..Len(els) : els[i].id = els[j].id => i = j
                  /\ \A i \in 1..Len(els) :
                       /\ els[i].type = "bpmn:SequenceFlow" =>
                            /\ \E j \in 1..(i - 1) : els[j].id = els[i].source
                            /\ \E j \in 1..(i - 1) : els[j].id = els[i].target
                       /\ els[i].type = "label" =>
                            \E j \in 1..(i - 1) : els[j].id = LabelOwner(els[i])
            \* The elements a diagram may hold besides its root, of the kinds of
            \* BpmnElementType.
            ElementUniverse ==
              LET \* The label the engine keeps for a named element: an element of its own
                  \* in the registry, of type 'label', with the business object of its owner.
                  Label(owner, name, x, y) == Node(owner \o "_label", "label", name, x, y)
              IN  {Node("s1", "bpmn:StartEvent", "Start", 100, 200),
                   Label("s1", "Start", 90, 245),
                   Node("t1", "bpmn:Task", "Task", 200, 200),
                   Node("g1", "bpmn:ExclusiveGateway", "", 350, 200),
                   Flow("Flow_1", "s1", "t1"),
                   Flow("Flow_2", "t1", "g1")}
        IN  {<<root>> \o rest :
               root \in {Root("Process_1", "bpmn:Process"),
                         Root("Collaboration_1", "bpmn:Collaboration")},
               rest \in {q \in SeqsUpTo(ElementUniverse, MaxBatch + 1) : RegistryOrdered(q)}}
  IN  /\ elements \in ContextDiagrams
      /\ frames = <<>>
      /\ chatMessages = <<>>
      /\ isProcessing = FALSE
      /\ error = NoError
      /\ isAiProcessing = FALSE
      /\ apiKey = FALSE
      /\ hasModeler = TRUE
      /\ fetchCalls = 0
      /\ now = 0
      /\ editor = InitialEditor
      /\ dialog = InitialDialog
      /\ settings = InitialSettings

NextContext == GetDiagramContextCall

\* The context extractor under any caller.
SpecContext == InitContext /\ [][NextContext]_vars

\* The file handlers of App.vue with the confirmation dialog.
SpecConfirm == InitStore /\ [][NextConfirm]_vars

\* The settings panel over the storage.
SpecSettings == InitStore /\ [][NextSettings]_vars

\* The validator under any caller.
SpecValidate == InitStore /\ [][NextValidate]_vars

\* The store under any caller of its actions.
SpecStore == InitStore /\ [][NextStore]_vars

InitExec ==
  LET InitialDiagrams ==
        LET \* The canvas before any import: the engine's implicit root only.
            EmptyCanvas == <<Root("__implicitroot", "")>>
        IN  {BLANK_DIAGRAM, SampleDiagram, EmptyCanvas}
  IN  /\ elements \in InitialDiagrams
      /\ frames = <<>>
      /\ chatMessages = <<>>
      /\ isProcessing = FALSE
      /\ error = NoError
      /\ isAiProcessing = FALSE
      /\ apiKey = FALSE
      /\ hasModeler = TRUE
      /\ fetchCalls = 0
      /\ now = 0
      /\ editor = InitialEditor
      /\ dialog = InitialDialog
      /\ settings = InitialSettings

NextExec ==
  \/ ExecuteCommandsCall
  \/ \E f \in 1..Len(frames) : ImportResolves(f)

\* The executor under a caller of executeCommands.
SpecExec == InitExec /\ [][NextExec]_vars

InitSend ==
  /\ elements = SampleDiagram
  /\ frames = <<>>
  /\ chatMessages = <<>>
  /\ isProcessing = FALSE
  /\ error = NoError
  /\ isAiProcessing = FALSE
  /\ apiKey \in BOOLEAN
  /\ hasModeler = FALSE
  /\ fetchCalls = 0
  /\ now = 0
  /\ editor = InitialEditor
  /\ dialog = InitialDialog
  /\ settings = InitialSettings

NextSend ==
  \/ SendMessageCall
  \/ \E f \in 1..Len(frames) : FetchSettles(f)
  \/ \E f \in 1..Len(frames) : BodySettles(f)

\* The assistant client under a caller of sendMessage.
SpecSend == InitSend /\ [][NextSend]_vars

Init ==
  /\ elements = SampleDiagram
  /\ frames = <<>>
  /\ chatMessages = <<>>
  /\ isProcessing = FALSE
  /\ error = NoError
  /\ isAiProcessing = FALSE
  /\ apiKey = TRUE
  /\ hasModeler \in BOOLEAN
  /\ fetchCalls = 0
  /\ now = 0
  /\ editor = InitialEditor
  /\ dialog = InitialDialog
  /\ settings = InitialSettings

Next ==
  \/ HandleSendMessage
  \/ \E f \in 1..Len(frames) : FetchSettles(f)
  \/ \E f \in 1..Len(frames) : BodySettles(f)
  \/ \E f \in 1..Len(frames) : ImportResolves(f)
  \/ UserDelete

\* The chat panel: exchanges started by the user, the endpoint, the engine
\* and the user's edits on the canvas.
Spec == Init /\ [][Next]_vars

NextLive ==
  \/ HandleSendMessage
  \/ \E f \in 1..Len(frames) : FetchSettles(f)
  \/ \E f \in 1..Len(frames) : BodySettles(f)
  \/ \E f \in 1..Len(frames) : ImportResolves(f)

\* An await on the endpoint or on the engine settles.
AwaitSettles ==
  \E f \in 1..Len(frames) : FetchSettles(f) \/ BodySettles(f) \/ ImportResolves(f)

\* The exchanges of the chat panel with an endpoint and an engine that go
\* on settling what is awaited, the canvas left to the commands.
SpecLive == Init /\ [][NextLive]_vars /\ WF_vars(AwaitSettles)

\* ================================================================ claims
\* The diagram a batch leaves after its first k commands, each command run
\* against what its predecessors left.
RECURSIVE DiagramAfter(_, _, _)
DiagramAfter(before, commands, k) ==
  IF k = 0 THEN before
  ELSE executeCommand(DiagramAfter(before, commands, k - 1), commands[k]).elements

\* The diagram obtained by applying, in order, the commands of the first k
\* whose result entry says success.
RECURSIVE ApplySucceeded(_, _, _, _)
ApplySucceeded(before, commands, results, k) ==
  IF k = 0 THEN before
  ELSE LET d == ApplySucceeded(before, commands, results, k - 1)
       IN IF results[k].success THEN executeCommand(d, commands[k]).elements ELSE d

BatchDone(f) ==
  /\ frames[f].pc = "done"
  /\ Len(frames[f].commands) > 0
  /\ frames[f].response.kind # "error"

Successes(results) == [i \in 1..Len(results) |-> results[i].success]

\* C1: executeCommands returns exactly one CommandResult per input command,
\* the i-th result carrying the i-th command, whatever subset of the
\* commands fails; while the loop is suspended the results are those of
\* the commands before the current one.
C1_OneResultPerCommand ==
  \A f \in 1..Len(frames) :
    LET fr == frames[f]
    IN /\ Len(fr.results) <= Len(fr.commands)
       /\ \A i \in 1..Len(fr.results) : fr.results[i].command = fr.commands[i]
       /\ fr.pc = "import" => Len(fr.results) = fr.idx - 1
       /\ BatchDone(f) => Len(fr.results) = Len(fr.commands)

C1_Witness ==
  \E f \in 1..Len(frames) :
    /\ BatchDone(f)
    /\ Len(frames[f].commands) = 3
    /\ Len(frames[f].results) = 3
    /\ ~frames[f].results[1].success
    /\ frames[f].results[2].success
    /\ ~frames[f].results[3].success

\* C2: the commands run strictly in submission order, one at a time, and a
\* failure does not stop the batch: the i-th result is the outcome of
\* running the i-th command against the diagram its predecessors left,
\* also after a failed command, and a failure is recorded with its error.
C2_InOrderFailureDoesNotStop ==
  \A f \in 1..Len(frames) :
    frames[f].fn = "executeCommands" /\ BatchDone(f) =>
      LET fr == frames[f]
      IN \A i \in 1..Len(fr.commands) :
           /\ i <= Len(fr.results)
           /\ LET outcome == executeCommand(DiagramAfter(fr.before, fr.commands, i - 1),
                                            fr.commands[i])
              IN /\ fr.results[i].success = outcome.ok
                 /\ fr.results[i].result = outcome.result
                 /\ fr.results[i].error = outcome.error
           /\ ~fr.results[i].success => fr.results[i].error.kind # "none"

C2_Witness ==
  \E f \in 1..Len(frames) :
    /\ frames[f].fn = "executeCommands" /\ BatchDone(f)
    /\ frames[f].commands = <<AddFlow(JStr("t1"), JStr("zz")), AddShape("addTask", JStr("t1"))>>
    /\ frames[f].before = BLANK_DIAGRAM
    /\ Successes(frames[f].results) = <<FALSE, TRUE>>
    /\ frames[f].results[1].error = [kind |-> "Source element not found", arg |-> "t1"]
    /\ "t1" \in Ids(elements)

\* C3: a failure undoes nothing: after a batch the diagram is the result of
\* applying, in order, exactly the commands that succeeded; addTask followed
\* by an addSequenceFlow to a nonexistent id gives one success, one failure,
\* and the task is still in the diagram.
C3_NoRollback ==
  \A f \in 1..Len(frames) :
    frames[f].fn = "executeCommands" /\ BatchDone(f) =>
      LET fr == frames[f]
      IN /\ Len(fr.results) = Len(fr.commands)
         /\ elements = ApplySucceeded(fr.before, fr.commands, fr.results, Len(fr.commands))
         /\ (/\ fr.commands = <<AddShape("addTask", JStr("t1")), AddFlow(JStr("t1"), JStr("zz"))>>
             /\ fr.before = BLANK_DIAGRAM)
            => /\ Successes(fr.results) = <<TRUE, FALSE>>
               /\ \E i \in 1..Len(elements) :
                    elements[i].id = "t1" /\ elements[i].type = "bpmn:Task"

C3_Witness ==
  \E f \in 1..Len(frames) :
    /\ frames[f].fn = "executeCommands" /\ BatchDone(f)
    /\ frames[f].commands = <<AddShape("addTask", JStr("t1")), AddFlow(JStr("t1"), JStr("zz"))>>
    /\ frames[f].before = BLANK_DIAGRAM
    /\ Successes(frames[f].results) = <<TRUE, FALSE>>
    /\ Len(elements) = Len(BLANK_DIAGRAM) + 1

\* C5: the executor applies no command that validateCommand rejects: a
\* rejected command never gets a success result.
C5_ValidatedBeforeExecution ==
  \A f \in 1..Len(frames) :
    \A i \in 1..Len(frames[f].results) :
      frames[f].results[i].success => validateCommand(frames[f].results[i].command).valid

SendSettled(f) ==
  /\ frames[f].fn = "sendMessage"
  /\ frames[f].pc = "done"

\* The command list of a parsed reply fails validateCommands: it holds an
\* invalid candidate, or the commands member is something else than a list.
ListFailsValidation(json) ==
  \/ json.commands.js \notin {"undefined", "null", "array"}
  \/ /\ json.commands.js = "array"
     /\ \E i \in 1..Len(json.commands.list) :
          ~validateCommand(json.commands.list[i]).valid

\* C4: when the reply parses as an object whose command list fails
\* validateCommands, sendMessage returns no commands and the reply's message;
\* every command of a returned AiResponse passes validateCommand.
C4_OnlyValidatedCommandsReturned ==
  \A f \in 1..Len(frames) :
    SendSettled(f) /\ frames[f].response.kind = "ok" =>
      LET fr == frames[f]
      IN /\ \A i \in 1..Len(fr.response.commands) :
              validateCommand(fr.response.commands[i]).valid
         /\ fr.reply.json.t = "object" /\ ListFailsValidation(fr.reply.json) =>
              /\ fr.response.commands = <<>>
              /\ fr.response.message =
                   (IF Truthy(fr.reply.json.message) THEN fr.reply.json.message
                    ELSE JStr("Done!"))

C4_Witness ==
  \E f \in 1..Len(frames) :
    /\ SendSettled(f)
    /\ frames[f].reply = MissingId
    /\ frames[f].response = AiResponse(JStr("ok"), <<>>)

\* The user text passes message validation in the claim's words: a string
\* whose length after trimming is between 1 and 10,000.
PassesMessageValidation(message) ==
  /\ message.js = "string"
  /\ TextLength(Trim(message.runs)) >= 1
  /\ TextLength(Trim(message.runs)) <= 10000

\* C6: sendMessage issues a network request only with a credential and a
\* text that passes message validation; otherwise it fails before any
\* network call: the calls of fetch are exactly those of the accepted sends.
C6_NoRequestUnlessValid ==
  /\ fetchCalls = Cardinality({f \in 1..Len(frames) :
                     apiKey /\ PassesMessageValidation(frames[f].message)})
  /\ \A f \in 1..Len(frames) :
       ~(apiKey /\ PassesMessageValidation(frames[f].message)) =>
         /\ frames[f].pc = "done"
         /\ frames[f].status = ""
         /\ frames[f].response.kind = "error"

C6_Witness ==
  /\ apiKey
  /\ Len(frames) = 2
  /\ frames[1].message = Text(<<Run(FALSE, MAX_MESSAGE_LENGTH + 1)>>)
  /\ frames[1].response.kind = "error"
  /\ frames[2].message = Text(<<Run(TRUE, 2), Run(FALSE, MAX_MESSAGE_LENGTH), Run(TRUE, 2)>>)
  /\ frames[2].pc = "fetch"
  /\ fetchCalls = 1

\* C7: a completion text that is not a JSON object with message/commands
\* comes back as {message: the raw text, commands: []}.
C7_RawTextWhenNotAnObject ==
  \A f \in 1..Len(frames) :
    SendSettled(f) /\ frames[f].reply.raw # "" /\ frames[f].reply.json.t # "object" =>
      frames[f].response = AiResponse(JStr(frames[f].reply.raw), <<>>)

Outstanding ==
  {f \in 1..Len(frames) : frames[f].pc \in {"fetch", "body"}}

\* C8: the in-flight flag is set exactly while a request of sendMessage is
\* outstanding: from before the call of fetch until sendMessage has
\* settled, whatever the outcome.
C8_FlagWhileRequestOutstanding ==
  isProcessing <=> Outstanding # {}

C8_Witness ==
  /\ Len(frames) = 2
  /\ frames[1].pc = "done"
  /\ frames[1].response.error.kind = "Failed to fetch"
  /\ frames[2].pc = "body"
  /\ isProcessing

UserMessages(messages) ==
  Cardinality({i \in 1..Len(messages) : messages[i].role = "user"})

\* C9: through the chat panel at most one request is outstanding at any
\* time, and while the in-flight flag is set no step issues a network call,
\* starts an exchange or appends a user message.
C9_OneRequestAtATime ==
  /\ [](Cardinality(Outstanding) <= 1)
  /\ [][isProcessing =>
          /\ fetchCalls' = fetchCalls
          /\ Len(frames') = Len(frames)
          /\ UserMessages(chatMessages') = UserMessages(chatMessages)]_vars

\* A request is outstanding and the panel still takes send events.
C9_Witness ==
  /\ isProcessing
  /\ Cardinality(Outstanding) = 1
  /\ Len(frames) < MaxExchanges
  /\ ENABLED HandleSendMessage

ReferencedIds(command) ==
  IF command.js # "object" \/ command.action.t # "string" THEN <<>>
  ELSE IF command.action.s = "addSequenceFlow"
       THEN <<command.sourceId, command.targetId>>
  ELSE IF command.action.s \in {"updateElement", "removeElement"}
       THEN <<command.id>>
  ELSE <<>>

\* The first referenced id that does not resolve in the diagram els.
Unresolved(els, command) ==
  {k \in 1..Len(ReferencedIds(command)) :
     /\ RegistryGet(els, ReferencedIds(command)[k]) = 0
     /\ \A j \in 1..(k - 1) : RegistryGet(els, ReferencedIds(command)[j]) # 0}

NotFoundErrors ==
  {"Source element not found", "Target element not found", "Element not found"}

\* C11: a command that refers to an id which does not resolve when it
\* executes fails with a not-found error naming that id, and the diagram
\* after it is the diagram before it.
C11_UnresolvedIdFailsAndChangesNothing ==
  \A f \in 1..Len(frames) :
    frames[f].fn = "executeCommands" /\ BatchDone(f) =>
      LET fr == frames[f]
      IN \A i \in 1..Len(fr.commands) :
           LET d == DiagramAfter(fr.before, fr.commands, i - 1)
               missing == Unresolved(d, fr.commands[i])
           IN missing # {} =>
                /\ i <= Len(fr.results)
                /\ ~fr.results[i].success
                /\ fr.results[i].error.kind \in NotFoundErrors
                /\ \A k \in missing :
                     ReferencedIds(fr.commands[i])[k].t = "string" =>
                       fr.results[i].error.arg = ReferencedIds(fr.commands[i])[k].s
                /\ DiagramAfter(fr.before, fr.commands, i) = d
                /\ i = Len(fr.commands) =>
                     elements = ApplySucceeded(fr.before, fr.commands, fr.results, i - 1)

C11_Witness ==
  \E f \in 1..Len(frames) :
    /\ frames[f].fn = "executeCommands" /\ BatchDone(f)
    /\ frames[f].commands = <<Remove(JStr("t1")), Update(JStr("t1"), Renamed),
                              AddFlow(JStr("s1"), JStr("t1"))>>
    /\ frames[f].before = SampleDiagram
    /\ Successes(frames[f].results) = <<TRUE, FALSE, FALSE>>
    /\ frames[f].results[2].error = [kind |-> "Element not found", arg |-> "t1"]
    /\ frames[f].results[3].error = [kind |-> "Target element not found", arg |-> "t1"]
    /\ elements = Without(SampleDiagram, "t1")

\* A message without its id: who said what.
Said(role, content) == [role |-> role, content |-> content]
SaidIn(messages) ==
  [i \in 1..Len(messages) |-> Said(messages[i].role, messages[i].content)]

WithRole(messages, role) ==
  {i \in 1..Len(messages) : messages[i].role = role}

ErrorNotices(messages) ==
  {i \in WithRole(messages, "system") : messages[i].content.kind = "Error"}

\* The exchanges whose endpoint call failed: the request was issued and
\* sendMessage threw.
EndpointFailed(fr) ==
  /\ fr.fn = "handleSendMessage"
  /\ fr.pc = "done"
  /\ fr.response.kind = "error"
  /\ PassesMessageValidation(fr.message)

\* C12: a failed endpoint call is reported once and not repeated: one
\* network call per exchange that reached the request, one system error
\* message per failed exchange, appended when it fails, no assistant
\* message for it, no command run, and nothing more happens in it.
C12_FailureReportedOnce ==
  /\ [](/\ fetchCalls = Cardinality({f \in 1..Len(frames) :
                          PassesMessageValidation(frames[f].message)})
        /\ Cardinality(ErrorNotices(chatMessages)) =
             Cardinality({f \in 1..Len(frames) : frames[f].response.kind = "error"})
        /\ Cardinality(WithRole(chatMessages, "assistant")) =
             Cardinality({f \in 1..Len(frames) : frames[f].response.kind = "ok"})
        /\ \A f \in 1..Len(frames) :
             EndpointFailed(frames[f]) =>
               frames[f].commands = <<>> /\ frames[f].results = <<>>)
  /\ [][\A f \in 1..Len(frames) :
          /\ frames[f].pc \in {"fetch", "body"} /\ EndpointFailed(frames'[f]) =>
               /\ SubSeq(chatMessages', 1, Len(chatMessages)) = chatMessages
               /\ SaidIn(chatMessages') = Append(SaidIn(chatMessages),
                    Said("system", [kind |-> "Error",
                                    errors |-> <<frames'[f].response.error>>]))
               /\ elements' = elements
               /\ fetchCalls' = fetchCalls
          /\ EndpointFailed(frames[f]) => frames'[f] = frames[f]]_vars

C12_Witness ==
  /\ Len(frames) = 2
  /\ EndpointFailed(frames[1])
  /\ frames[1].response.error.kind = "API request failed"
  /\ EndpointFailed(frames[2])
  /\ frames[2].response.error.kind = "No response from AI"
  /\ fetchCalls = 2
  /\ [i \in 1..Len(chatMessages) |-> chatMessages[i].role] =
       <<"user", "system", "user", "system">>

\* The errors of the failed entries of results, in the order of the list.
ErrorsInOrder(results) ==
  LET Failed(r) == ~r.success
      failed == SelectSeq(results, Failed)
  IN [k \in 1..Len(failed) |-> failed[k].error]

\* The notice the claim asks for after a batch with these results.
NoticeFor(results) ==
  IF \E i \in 1..Len(results) : ~results[i].success
  THEN <<Said("system", [kind |-> "Some commands failed",
                         errors |-> ErrorsInOrder(results)])>>
  ELSE <<>>

FailureNotices(messages) ==
  {i \in WithRole(messages, "system") : messages[i].content.kind = "Some commands failed"}

BatchExecuted(fr) ==
  /\ fr.fn = "handleSendMessage"
  /\ fr.pc = "done"
  /\ Len(fr.commands) > 0

\* C13: when the batch of a reply has been executed the conversation gets
\* one notice listing the errors of all failed commands in submission
\* order, or none when all succeeded; the notice comes after the assistant
\* reply of the exchange, and nothing more is added for it later.
C13_OneNoticePerFailedBatch ==
  /\ [](Cardinality(FailureNotices(chatMessages)) =
          Cardinality({f \in 1..Len(frames) :
             BatchExecuted(frames[f]) /\ NoticeFor(frames[f].results) # <<>>}))
  /\ [][\A f \in 1..Len(frames) :
          /\ ~BatchExecuted(frames[f]) /\ BatchExecuted(frames'[f]) =>
               LET reply == Said("assistant", frames'[f].response.message)
                   added == SubSeq(SaidIn(chatMessages'), Len(chatMessages) + 1,
                                   Len(chatMessages'))
               IN /\ Len(chatMessages') >= Len(chatMessages)
                  /\ SubSeq(chatMessages', 1, Len(chatMessages)) = chatMessages
                  /\ IF frames[f].pc = "import"
                     THEN /\ added = NoticeFor(frames'[f].results)
                          /\ \E i \in 1..Len(chatMessages) :
                               SaidIn(chatMessages)[i] = reply
                     ELSE added = <<reply>> \o NoticeFor(frames'[f].results)
          /\ BatchExecuted(frames[f]) => frames'[f] = frames[f]]_vars

C13_Witness ==
  \E f \in 1..Len(frames) :
    /\ BatchExecuted(frames[f])
    /\ Successes(frames[f].results) = <<TRUE, FALSE, FALSE>>
    /\ Len(chatMessages) >= 2
    /\ SaidIn(chatMessages)[Len(chatMessages)] =
         Said("system",
           [kind |-> "Some commands failed",
            errors |-> <<[kind |-> "Target element not found", arg |-> "zz"],
                         [kind |-> "Element not found", arg |-> "t1"]>>])
    /\ chatMessages[Len(chatMessages) - 1].role = "assistant"

\* C14: every command of the list sendMessage returned for an exchange is
\* submitted to the executor exactly once, in list order: when the
\* exchange is over there is one result per returned command, the i-th for
\* the i-th command.
C14_EveryCommandSubmittedOnce ==
  \A f \in 1..Len(frames) :
    LET fr == frames[f]
    IN fr.fn = "handleSendMessage" /\ fr.pc = "done" /\ fr.response.kind = "ok" =>
         /\ Len(fr.results) = Len(fr.response.commands)
         /\ \A i \in 1..Len(fr.results) : fr.results[i].command = fr.response.commands[i]

ClearAndBuildDone(fr) ==
  /\ fr.fn = "executeCommands"
  /\ fr.pc = "done"
  /\ fr.commands = ClearAndBuild

\* C15: from any starting diagram, clear, addStartEvent s1, addTask t1,
\* addSequenceFlow s1 -> t1 all succeed, the flow resolving the two ids
\* created earlier in the batch.
C15_ClearAndBuildSucceeds ==
  \A f \in 1..Len(frames) :
    ClearAndBuildDone(frames[f]) =>
      /\ Successes(frames[f].results) = <<TRUE, TRUE, TRUE, TRUE>>
      /\ frames[f].results[2].result.id = "s1"
      /\ frames[f].results[3].result.id = "t1"
      /\ frames[f].results[4].result.type = "bpmn:SequenceFlow"
      /\ \E i \in 1..Len(elements) :
           /\ elements[i].id = frames[f].results[4].result.id
           /\ elements[i].source = "s1"
           /\ elements[i].target = "t1"

C15_Witness ==
  \E f \in 1..Len(frames) :
    /\ ClearAndBuildDone(frames[f])
    /\ frames[f].before = SampleDiagram
    /\ Successes(frames[f].results) = <<TRUE, TRUE, TRUE, TRUE>>
    /\ {"s1", "t1"} \subseteq Ids(elements)

NodesOf(els) ==
  {i \in 1..Len(els) :
     els[i].type \notin {"", "bpmn:Process", "bpmn:Collaboration", "bpmn:SequenceFlow"}}

EdgesOf(els) ==
  {i \in 1..Len(els) : els[i].type = "bpmn:SequenceFlow"}

\* C16: after clear, addStartEvent s1, addTask t1, addSequenceFlow s1 -> t1
\* the diagram holds exactly two nodes and exactly one edge, from s1 to t1.
C16_TwoNodesOneEdge ==
  \A f \in 1..Len(frames) :
    ClearAndBuildDone(frames[f]) =>
      /\ Cardinality(NodesOf(elements)) = 2
      /\ Cardinality(EdgesOf(elements)) = 1
      /\ \A i \in EdgesOf(elements) :
           elements[i].source = "s1" /\ elements[i].target = "t1"

\* C17: the ids of the conversation are strictly increasing: every message
\* has an id greater than that of every message appended before it.
C17_IdsStrictlyIncreasing ==
  \A i \in 1..Len(chatMessages) :
    \A j \in (i + 1)..Len(chatMessages) :
      chatMessages[i].id < chatMessages[j].id

\* One message was added at the end and the earlier ones are as they were.
AppendedOne ==
  /\ Len(chatMessages') = Len(chatMessages) + 1
  /\ SubSeq(chatMessages', 1, Len(chatMessages)) = chatMessages

\* The step is an explicit clearChatMessages or reset by its effect on the
\* rest of the store.
ExplicitClear ==
  /\ chatMessages' = <<>>
  /\ \/ editor' = editor /\ isAiProcessing' = isAiProcessing
     \/ /\ isAiProcessing' = FALSE
        /\ ~editor'.isDirty /\ ~editor'.canUndo /\ ~editor'.canRedo
        /\ editor'.currentFileName = "null"
        /\ editor'.selectedElement = "null"
        /\ editor'.zoom = ZOOM_DEFAULT_LEVEL

\* C18: the conversation is append-only: a step of the store that changes
\* it adds one message at the end and keeps the earlier ones, or is an
\* explicit clearChatMessages/reset, which empties it; a step that changes
\* another ref of the store leaves it alone.
C18_AppendOnly ==
  [][/\ chatMessages' # chatMessages =>
          \/ AppendedOne /\ editor' = editor /\ isAiProcessing' = isAiProcessing
          \/ ExplicitClear
     /\ Len(chatMessages') < Len(chatMessages) => chatMessages' = <<>>]_vars

C18_Witness ==
  /\ Len(chatMessages) = 2
  /\ chatMessages[1].role = "user"
  /\ chatMessages[2].role = "assistant"
  /\ chatMessages[1].id < chatMessages[2].id
  /\ editor.isDirty
  /\ editor.showChat
  /\ isAiProcessing

\* The x of the shapes that the successful commands of kind action placed
\* without being given an x, and that are still in the diagram.
DefaultXs(fr, action) ==
  {elements[e].x : e \in {e \in 1..Len(elements) :
     \E i \in 1..Len(fr.results) :
       /\ fr.results[i].success
       /\ IsAction(fr.commands[i], action)
       /\ fr.commands[i].x.t = "undefined"
       /\ fr.results[i].result.id = elements[e].id}}

\* C19: without x/y the position depends on the kind: a start event lands
\* left of a task and an end event right of it, so the three do not land
\* on the same point.
C19_DefaultPositionByKind ==
  \A f \in 1..Len(frames) :
    frames[f].fn = "executeCommands" /\ BatchDone(f) =>
      /\ \A xs \in DefaultXs(frames[f], "addStartEvent") :
           \A xt \in DefaultXs(frames[f], "addTask") : xs < xt
      /\ \A xe \in DefaultXs(frames[f], "addEndEvent") :
           \A xt \in DefaultXs(frames[f], "addTask") : xe > xt

\* A {valid, errors} result: valid is a boolean that tells whether the
\* error list is empty.
Structured(result) ==
  /\ DOMAIN result = {"valid", "errors"}
  /\ result.valid \in BOOLEAN
  /\ result.valid <=> Len(result.errors) = 0

\* C20: validateCommand and validateCommands return a {valid, errors}
\* result for every input, an invalid one for null, non-objects, an empty
\* array, missing or wrongly typed fields and a non-array list, and a call
\* changes no state besides handing its result to the caller.
C20_ValidatorAlwaysReturns ==
  /\ [](\A f \in 1..Len(frames) :
          frames[f].fn \in {"validateCommand", "validateCommands"} =>
            /\ Structured(frames[f].validation)
            /\ frames[f].fn = "validateCommand" /\ frames[f].argument.js # "object" =>
                 ~frames[f].validation.valid
            /\ frames[f].fn = "validateCommands" /\ ~frames[f].argument.isArray =>
                 ~frames[f].validation.valid
            /\ frames[f].fn = "validateCommand" /\ frames[f].argument \in ValidCommands =>
                 frames[f].validation.valid)
  /\ [][<<elements, chatMessages, isProcessing, error, isAiProcessing, apiKey,
          hasModeler, fetchCalls, now, editor, dialog, settings>>' =
        <<elements, chatMessages, isProcessing, error, isAiProcessing, apiKey,
          hasModeler, fetchCalls, now, editor, dialog, settings>>]_vars

C20_Witness ==
  /\ Len(frames) = 1
  /\ frames[1].fn = "validateCommands"
  /\ frames[1].argument =
       [isArray |-> TRUE, list |-> <<NonObjectCandidate("null"), Update(JStr("t1"), JNull)>>]
  /\ frames[1].validation =
       [valid |-> FALSE,
        errors |-> <<[index |-> 1, errors |-> <<[msg |-> "Invalid command format", arg |-> ""]>>],
                     [index |-> 2, errors |-> <<[msg |-> "updateElement requires properties object",
                                                arg |-> "properties"]>>]>>]

\* A non-empty string.
NonEmptyString(v) == v.t = "string" /\ v.s # ""

\* The result of validateCommand lists the error msg about arg.
HasError(result, msg, arg) ==
  \E i \in 1..Len(result.errors) : result.errors[i] = [msg |-> msg, arg |-> arg]

ValidateCommandDone(fr) == fr.fn = "validateCommand" /\ fr.argument.js = "object"

\* C21: validateCommand accepts an addSequenceFlow candidate exactly when
\* sourceId and targetId are both non-empty strings; a missing, empty or
\* wrongly typed id gives an error that names that field.
C21_FlowNeedsBothIds ==
  \A f \in 1..Len(frames) :
    ValidateCommandDone(frames[f]) /\ frames[f].argument.action = JStr("addSequenceFlow") =>
      LET cmd == frames[f].argument
          result == frames[f].validation
      IN /\ result.valid <=> NonEmptyString(cmd.sourceId) /\ NonEmptyString(cmd.targetId)
         /\ ~NonEmptyString(cmd.sourceId) <=>
              HasError(result, "addSequenceFlow requires sourceId", "sourceId")
         /\ ~NonEmptyString(cmd.targetId) <=>
              HasError(result, "addSequenceFlow requires targetId", "targetId")
         /\ cmd = AddFlow(JStr("a"), JStr("b")) => result.valid

C21_Witness ==
  /\ Len(frames) = 1
  /\ frames[1].fn = "validateCommand"
  /\ frames[1].argument = AddFlow(JStr("s1"), JNum(3))
  /\ frames[1].validation =
       [valid |-> FALSE,
        errors |-> <<[msg |-> "addSequenceFlow requires targetId", arg |-> "targetId"]>>]

\* The nine kinds of command.
RecognizedKinds ==
  {"clear", "addTask", "addStartEvent", "addEndEvent", "addExclusiveGateway",
   "addParallelGateway", "addSequenceFlow", "updateElement", "removeElement"}

\* C22: validateCommand rejects every candidate whose action is absent, no
\* string or none of the nine kinds; the action "bogus" gives an
\* "Invalid action" error.
C22_UnknownActionRejected ==
  \A f \in 1..Len(frames) :
    ValidateCommandDone(frames[f]) =>
      LET cmd == frames[f].argument
          result == frames[f].validation
      IN /\ Cardinality(RecognizedKinds) = 9
         /\ (cmd.action.t # "string" \/ cmd.action.s \notin RecognizedKinds) => ~result.valid
         /\ cmd.action = JStr("bogus") => HasError(result, "Invalid action", "bogus")

C22_Witness ==
  /\ Len(frames) = 1
  /\ frames[1].fn = "validateCommand"
  /\ frames[1].argument = AddShape("bogus", JUndef)
  /\ frames[1].validation =
       [valid |-> FALSE, errors |-> <<[msg |-> "Invalid action", arg |-> "bogus"]>>]

\* The positions of the candidates of list that validateCommand rejects.
InvalidPositions(list) == {i \in 1..Len(list) : ~validateCommand(list[i]).valid}

\* C23: validateCommands of a list is valid exactly when validateCommand
\* accepts every candidate; its errors hold one entry for each rejected
\* candidate, in list order, with the candidate's position counted from 1
\* and the candidate's own errors.
C23_AggregatesPerCandidate ==
  \A f \in 1..Len(frames) :
    frames[f].fn = "validateCommands" /\ frames[f].argument.isArray =>
      LET list == frames[f].argument.list
          result == frames[f].validation
      IN /\ result.valid <=> InvalidPositions(list) = {}
         /\ Len(result.errors) = Cardinality(InvalidPositions(list))
         /\ \A k \in 1..Len(result.errors) :
              /\ result.errors[k].index \in InvalidPositions(list)
              /\ result.errors[k].errors =
                   validateCommand(list[result.errors[k].index]).errors
              /\ \A j \in 1..(k - 1) : result.errors[j].index < result.errors[k].index

C23_Witness ==
  /\ Len(frames) = 1
  /\ frames[1].fn = "validateCommands"
  /\ frames[1].argument =
       [isArray |-> TRUE, list |-> <<AddShape("addTask", JStr("t1")), Remove(JUndef)>>]
  /\ frames[1].validation =
       [valid |-> FALSE,
        errors |-> <<[index |-> 2,
                      errors |-> <<[msg |-> "requires id", arg |-> "removeElement"]>>]>>]

\* The root container: the element that is neither placed nor connected.
IsRootContainer(el) == el.x = NoPos /\ el.source = "" /\ el.target = ""

\* The positions of the elements of els that are summarised, and the
\* k-th of them.
Summarised(els) ==
  {i \in 1..Len(els) : ~IsRootContainer(els[i]) /\ els[i].type # "label"}

KthSummarised(els, k) ==
  CHOOSE i \in Summarised(els) : Cardinality({j \in Summarised(els) : j < i}) = k - 1

Answered(messages, i) ==
  \/ messages[i].role = "assistant"
  \/ /\ messages[i].role = "user"
     /\ i < Len(messages)
     /\ messages[i + 1].role = "assistant"

\* C25: the request of an exchange carries the conversation so far: each
\* user message that was answered and each assistant reply that the
\* conversation holds when the user sends a message is among the messages
\* of the request, next to the system instructions, the diagram context
\* and the message itself.
C25_RequestCarriesHistory ==
  [][\A f \in 1..Len(frames') :
       (f > Len(frames) /\ frames'[f].fn = "handleSendMessage"
        /\ Len(frames'[f].request) > 0) =>
         LET request == frames'[f].request
         IN /\ request[1] = [role |-> "system", content |-> SYSTEM_PROMPT]
            /\ request[Len(request)].role = "user"
            /\ request[Len(request)].content = frames'[f].message.runs
            /\ \A i \in 1..Len(chatMessages) :
                 Answered(chatMessages, i) =>
                   \E k \in 1..(Len(request) - 1) :
                     /\ request[k].role = chatMessages[i].role
                     /\ request[k].content = chatMessages[i].content]_vars

Dangling(els) ==
  {i \in 1..Len(els) :
     /\ els[i].type = "bpmn:SequenceFlow"
     /\ ~({els[i].source, els[i].target} \subseteq Ids(els))}

Answers(messages) == WithRole(messages, "assistant") \cup ErrorNotices(messages)

\* The exchanges that have got their answer: sendMessage has settled.
AnsweredExchanges == {f \in 1..Len(frames) : frames[f].pc \notin {"fetch", "body"}}

\* The k-th user message of the conversation.
KthUser(messages, k) ==
  CHOOSE i \in WithRole(messages, "user") :
    Cardinality({j \in WithRole(messages, "user") : j < i}) = k - 1

PendingConfirms ==
  {p \in 1..Len(dialog.promises) : dialog.promises[p] = "pending"}

\* C29: once the dialog has been answered every promise confirm() has
\* returned is resolved, also when confirm() was called again while an
\* earlier promise was pending: no handler is left waiting behind a closed
\* dialog.
C29_NoConfirmationLost ==
  ~dialog.showConfirmDialog =>
    /\ PendingConfirms = {}
    /\ \A f \in 1..Len(frames) : frames[f].pc # "confirm"

\* The settings in memory, and the settings the storage gives back.
InMemory(st) == <<st.apiKey, st.apiEndpoint, st.modelName>>

Persisted(st) ==
  <<retrieveApiKey(st.localStorage), retrieveEndpoint(st.localStorage),
    retrieveModel(st.localStorage)>>

\* C30: saveSettings is all-or-nothing.  When the key or the endpoint fails
\* validation the call throws and leaves the settings in memory and the
\* storage as they were; when both pass, the key, endpoint and model in
\* memory and in the storage are the new ones.
C30_SaveSettingsAllOrNothing ==
  [][settings'.calls = settings.calls + 1 =>
       LET call == settings'.call
           finalEndpoint == IF call.endpoint # EmptyUrl THEN call.endpoint
                            ELSE DEFAULT_ENDPOINT
           finalModel == IF call.model # "" THEN call.model ELSE DEFAULT_MODEL
           new == <<call.key, finalEndpoint, finalModel>>
       IN IF validateApiKey(call.key).valid /\ validateUrl(finalEndpoint).valid
          THEN /\ InMemory(settings') = new
               /\ Persisted(settings') = new
          ELSE /\ call.threw # ""
               /\ InMemory(settings') = InMemory(settings)
               /\ settings'.localStorage = settings.localStorage]_vars

====
